---- MODULE Spec2Model ----
(***************************************************************************)
(* Interview agent (src/agent.js): the retrying structured model call      *)
(* callChatJSON, and the session registry driven by the /api/start,        *)
(* /api/answer, /api/auto-answer, /api/auto-exercise and /api/finish       *)
(* handlers.                                                               *)
(*                                                                         *)
(* Texts are sequences of tokens (words); includes() is contiguous         *)
(* sub-sequence search and toLowerCase() a per-token mapping.  Answers are  *)
(* sequences of characters.  A model call inside a handler is a suspension *)
(* point: a handler that mutates a session around an await is split into   *)
(* the step before the await and the step after it.                        *)
(***************************************************************************)
EXTENDS Integers, Sequences, FiniteSets, TLC

VARIABLES
  MAX_FOLLOWUPS_PER_SKILL, \* configured follow-up budget (agent.js:54)
  mode,                    \* "sequential": a client awaits each response
  quota,                   \* how many sessions and entries a run explores
  sessions,                \* keys of the registry Map (agent.js:91)
  sess,                    \* the session object created under each id
  nextId,                  \* ids handed out so far + 1
  reqs,                    \* handlers suspended at an await
  resp,                    \* the response sent by the last completed request
  assessed,                \* per id: audit artifacts written by /api/finish
  cj,                      \* one invocation of callChatJSON
  fin                      \* one run of the scoring functions of /api/finish

vars == <<MAX_FOLLOWUPS_PER_SKILL, mode, quota, sessions, sess, nextId, reqs,
          resp, assessed, cj, fin>>

\* set once, when the process starts
fixed == <<MAX_FOLLOWUPS_PER_SKILL, mode, quota>>

sessVars == <<fixed, sessions, sess, nextId, reqs, resp, assessed>>

(***************************************************************************)
(* Bounds                                                                  *)
(***************************************************************************)
MaxAttemptsBound == 7    \* largest maxAttempts given to callChatJSON
MaxFollowupsBound == 2   \* largest configured MAX_FOLLOWUPS_PER_SKILL
MaxSessions == 2         \* sessions created in one run
MaxSize == 4             \* sessions created plus transcript entries
DeepSize == 6            \* the same, in a run of a single session
MaxInflight == 2         \* handlers suspended at the same time

Min(a, b) == IF a <= b THEN a ELSE b

None == "none"   \* null / undefined, where the other values are strings
NoMsg == <<>>    \* no error message

(***************************************************************************)
(* Error messages and their classification (callChatJSON catch block)      *)
(***************************************************************************)
\* messages of the errors callChatJSON itself throws
CallMsg ==
  [emptyContent |-> <<"Model", "returned", "empty", "content", ".">>,
   fixEmpty |-> <<"JSON-fix", "step", "returned", "empty", "content", ".">>,
   unexpected |-> <<"callChatJSON", "failed", "unexpectedly", ".">>]

\* messages of errors thrown by hf.chat.completions.create
ApiErrors ==
  { <<"429", "status", "code">>,
    <<"Rate", "Limit", "reached">>,
    <<"Gateway", "Timeout">>,
    <<"Service", "temporarily", "unavailable">>,
    <<"fetch", "failed">>,
    <<"401", "Unauthorized">>,
    <<"Connection", "error", ".">> }

\* messages of the SyntaxError thrown by JSON.parse
SyntaxErrors ==
  { <<"Unexpected", "end", "of", "JSON", "input">>,
    <<"Unexpected", "token", "}", "in", "JSON", "at", "position", "429">> }

LowerMap ==
  [w \in {"Model", "JSON-fix", "callChatJSON", "Rate", "Limit", "Gateway",
          "Timeout", "Service", "Unauthorized", "Connection", "Unexpected",
          "JSON"} |->
     CASE w = "Model" -> "model"
       [] w = "JSON-fix" -> "json-fix"
       [] w = "callChatJSON" -> "callchatjson"
       [] w = "Rate" -> "rate"
       [] w = "Limit" -> "limit"
       [] w = "Gateway" -> "gateway"
       [] w = "Timeout" -> "timeout"
       [] w = "Service" -> "service"
       [] w = "Unauthorized" -> "unauthorized"
       [] w = "Connection" -> "connection"
       [] w = "Unexpected" -> "unexpected"
       [] w = "JSON" -> "json"]

toLowerCase(msg) ==
  [i \in 1..Len(msg) |-> IF msg[i] \in DOMAIN LowerMap THEN LowerMap[msg[i]]
                         ELSE msg[i]]

includes(msg, sub) ==
  \E i \in 1..(Len(msg) - Len(sub) + 1) : SubSeq(msg, i, i + Len(sub) - 1) = sub

is429(msg) ==
  includes(msg, <<"429">>) \/ includes(toLowerCase(msg), <<"rate", "limit">>)

isTransient(msg) ==
  \/ is429(msg)
  \/ includes(toLowerCase(msg), <<"timeout">>)
  \/ includes(toLowerCase(msg), <<"temporarily">>)
  \/ includes(toLowerCase(msg), <<"fetch", "failed">>)
  \/ includes(toLowerCase(msg), <<"empty", "content">>)

(***************************************************************************)
(* callChatJSON (agent.js:125-176) as a machine over one record            *)
(***************************************************************************)
DefaultMaxAttempts == 3
InitialDelay == 450
MaxDelay == 5000
DefaultTemperature == 20   \* 0.2, in hundredths
RepairTemperature == 0

JsonKinds == {"object", "array", "null"}

(***************************************************************************)
(* Response texts, cleanJSON (agent.js:114-123) and JSON.parse.  A text is *)
(* a sequence of characters; "tick" is a backtick, and "json", "null" and  *)
(* "kv" (a key/value pair) stand for the spans of characters they name,   *)
(* "x" for prose.                                                          *)
(***************************************************************************)
Whitespace == {" ", "\n"}

RECURSIVE trimStart(_)
trimStart(t) ==
  IF t # <<>> /\ Head(t) \in Whitespace THEN trimStart(Tail(t)) ELSE t

RECURSIVE trimEnd(_)
trimEnd(t) ==
  IF t # <<>> /\ t[Len(t)] \in Whitespace
    THEN trimEnd(SubSeq(t, 1, Len(t) - 1)) ELSE t

trim(t) == trimEnd(trimStart(t))

\* number of leading / trailing backticks of t
RECURSIVE leadingTicks(_)
leadingTicks(t) ==
  IF t # <<>> /\ Head(t) = "tick" THEN 1 + leadingTicks(Tail(t)) ELSE 0

RECURSIVE trailingTicks(_)
trailingTicks(t) ==
  IF t # <<>> /\ t[Len(t)] = "tick"
    THEN 1 + trailingTicks(SubSeq(t, 1, Len(t) - 1)) ELSE 0

\* line 116: strip a leading fence of 1-3 backticks followed by "json"
stripFenceJson(t) ==
  LET u == trimStart(t)
      n == leadingTicks(u)
      v == trimStart(SubSeq(u, n + 1, Len(u)))
  IN IF n \in 1..3 /\ v # <<>> /\ Head(v) \in {"json", "JSON"}
       THEN trimStart(Tail(v)) ELSE t

\* line 117: strip a leading fence of 1-3 backticks
stripFenceStart(t) ==
  LET u == trimStart(t)
      n == leadingTicks(u)
  IN IF n >= 1 THEN trimStart(SubSeq(u, Min(n, 3) + 1, Len(u))) ELSE t

\* line 118: strip a trailing fence of 1-3 backticks
stripFenceEnd(t) ==
  LET u == trimEnd(t)
      n == trailingTicks(u)
  IN IF n = 0 THEN t
     ELSE IF n <= 3 THEN trimEnd(SubSeq(u, 1, Len(u) - n))
     ELSE SubSeq(u, 1, Len(u) - 3)

\* t.indexOf(ch) and t.lastIndexOf(ch), 1-based, 0 when absent
indexOf(t, ch) ==
  IF \E i \in 1..Len(t) : t[i] = ch
    THEN CHOOSE i \in 1..Len(t) :
           t[i] = ch /\ \A j \in 1..(i - 1) : t[j] # ch
    ELSE 0

lastIndexOf(t, ch) ==
  IF \E i \in 1..Len(t) : t[i] = ch
    THEN CHOOSE i \in 1..Len(t) :
           t[i] = ch /\ \A j \in (i + 1)..Len(t) : t[j] # ch
    ELSE 0

cleanJSON(text) ==
  LET t == stripFenceEnd(stripFenceStart(stripFenceJson(trim(text))))
      a == indexOf(t, "{")
      b == lastIndexOf(t, "}")
  IN IF a # 0 /\ b # 0 /\ b > a THEN trim(SubSeq(t, a, b)) ELSE trim(t)

\* the kind of value JSON.parse returns for a cleaned text; "error" when
\* it throws a SyntaxError
JSONParse(t) ==
  IF t \in { <<"{", "}">>, <<"{", "kv", "}">> } THEN "object"
  ELSE IF t \in { <<"[", "]">>, <<"[", "null", "]">> } THEN "array"
  ELSE IF t = <<"null">> THEN "null"
  ELSE "error"

\* texts a model returns as message content
Texts ==
  LET Fence == <<"tick", "tick", "tick">> IN
  { <<>>,
    Fence,
    <<"{", "kv", "}">>,
    Fence \o <<"json", "\n", "{", "kv", "}", "\n">> \o Fence,
    <<"x", " ", "{", "}", " ", "x">>,
    <<"[", "{", "}", "]">>,
    <<"null">>,
    Fence \o <<"\n", "[", "null", "]", "\n">> \o Fence,
    <<"}", "x", "{">>,
    <<"{", "kv">>,
    <<"x">> }

\* what a response text is to callChatJSON: the text cleanJSON leaves is
\* empty, parses to a JSON value, or makes JSON.parse throw (the message
\* of the SyntaxError depends on the characters the spans stand for)
contentsOf(text) ==
  LET cleaned == cleanJSON(text) IN
  IF cleaned = <<>> THEN {[text |-> text, clean |-> "empty"]}
  ELSE IF JSONParse(cleaned) # "error"
    THEN {[text |-> text, clean |-> "text", parse |-> "value",
           kind |-> JSONParse(cleaned)]}
  ELSE {[text |-> text, clean |-> "text", parse |-> "error", msg |-> m] :
           m \in SyntaxErrors}

Contents == UNION {contentsOf(text) : text \in Texts}

\* an outbound completion request
NoContent == [text |-> <<>>, clean |-> "none"]
NoCall == [kind |-> "none"]
PrimaryCall(temperature) ==
  [kind |-> "primary", temperature |-> temperature, context |-> NoContent]
RepairCall(last) ==
  [kind |-> "repair", temperature |-> RepairTemperature, context |-> last]

CallStart(maxAttempts, temperature) ==
  IF 1 <= maxAttempts
    THEN [maxAttempts |-> maxAttempts, temperature |-> temperature,
          attempt |-> 1, delay |-> InitialDelay, last |-> NoContent,
          pc |-> "primary", value |-> None, error |-> NoMsg,
          out |-> PrimaryCall(temperature), calls |-> 1, repairs |-> 0,
          sleeps |-> <<>>, lastErr |-> NoMsg]
    ELSE [maxAttempts |-> maxAttempts, temperature |-> temperature,
          attempt |-> 1, delay |-> InitialDelay, last |-> NoContent,
          pc |-> "raised", value |-> None, error |-> CallMsg.unexpected,
          out |-> NoCall, calls |-> 0, repairs |-> 0,
          sleeps |-> <<>>, lastErr |-> NoMsg]

\* return JSON.parse(...)
Return(c, kind) == [c EXCEPT !.pc = "returned", !.value = kind]

\* Catch, were every failure retried while attempts remain
CatchRetryingAll(c, msg) ==
  IF c.attempt = c.maxAttempts
    THEN [c EXCEPT !.pc = "raised", !.error = msg, !.lastErr = msg]
    ELSE [c EXCEPT !.pc = "sleep", !.lastErr = msg,
                   !.sleeps = Append(c.sleeps, c.delay)]

\* the catch block, lines 159-172, up to and including sleep(delay)
Catch(c, msg) ==
  IF c.attempt = c.maxAttempts \/ ~isTransient(msg)
    THEN [c EXCEPT !.pc = "raised", !.error = msg, !.lastErr = msg]
    ELSE [c EXCEPT !.pc = "sleep", !.lastErr = msg,
                   !.sleeps = Append(c.sleeps, c.delay)]

\* lines 137-152: the primary completion resolved with some content
OnPrimaryContent(c, content) ==
  LET c1 == [c EXCEPT !.last = content] IN
  IF content.clean = "empty" THEN Catch(c1, CallMsg.emptyContent)
  ELSE IF content.parse = "value" THEN Return(c1, content.kind)
  ELSE [c1 EXCEPT !.pc = "repair", !.out = RepairCall(content),
                  !.calls = c.calls + 1, !.repairs = c.repairs + 1]

\* lines 154-157: the repair completion resolved with some content
OnRepairContent(c, content) ==
  IF content.clean = "empty" THEN Catch(c, CallMsg.fixEmpty)
  ELSE IF content.parse = "value" THEN Return(c, content.kind)
  ELSE Catch(c, content.msg)

\* OnSleepDone, were the doubled delay not capped
OnSleepDoneUncapped(c) ==
  [c EXCEPT !.delay = c.delay * 2,
            !.attempt = c.attempt + 1,
            !.pc = "primary", !.out = PrimaryCall(c.temperature),
            !.calls = c.calls + 1, !.repairs = 0]

\* lines 171, 129-135: after the sleep, the next iteration of the loop
OnSleepDone(c) ==
  [c EXCEPT !.delay = Min(c.delay * 2, MaxDelay),
            !.attempt = c.attempt + 1,
            !.pc = "primary", !.out = PrimaryCall(c.temperature),
            !.calls = c.calls + 1, !.repairs = 0]

(***************************************************************************)
(* The steps of one callChatJSON invocation                                *)
(***************************************************************************)
IdleCall == [pc |-> "idle"]
IdleFin == [pc |-> "idle"]

PrimaryResolves(content) ==
  /\ cj.pc = "primary"
  /\ cj' = OnPrimaryContent(cj, content)
  /\ UNCHANGED <<sessVars, fin>>

PrimaryRejects(msg) ==
  /\ cj.pc = "primary"
  /\ cj' = Catch(cj, msg)
  /\ UNCHANGED <<sessVars, fin>>

RepairResolves(content) ==
  /\ cj.pc = "repair"
  /\ cj' = OnRepairContent(cj, content)
  /\ UNCHANGED <<sessVars, fin>>

RepairRejects(msg) ==
  /\ cj.pc = "repair"
  /\ cj' = Catch(cj, msg)
  /\ UNCHANGED <<sessVars, fin>>

SleepDone ==
  /\ cj.pc = "sleep"
  /\ cj' = OnSleepDone(cj)
  /\ UNCHANGED <<sessVars, fin>>

CallDone == cj.pc \in {"returned", "raised"}

(***************************************************************************)
(* What a whole callChatJSON invocation can end in, for its callers        *)
(***************************************************************************)
\* the model behaviours the handlers are run against
HandlerContents ==
  {x \in Contents : x.clean = "empty" \/ x.parse = "value"}
HandlerApiErrors == {<<"401", "Unauthorized">>}

RECURSIVE Outcomes(_)
Outcomes(c) ==
  IF c.pc \in {"returned", "raised"}
    THEN {[pc |-> c.pc, value |-> c.value, error |-> c.error]}
  ELSE IF c.pc = "primary"
    THEN UNION ({Outcomes(OnPrimaryContent(c, x)) : x \in HandlerContents}
                  \cup {Outcomes(Catch(c, m)) : m \in HandlerApiErrors})
  ELSE IF c.pc = "repair"
    THEN UNION ({Outcomes(OnRepairContent(c, x)) : x \in HandlerContents}
                  \cup {Outcomes(Catch(c, m)) : m \in HandlerApiErrors})
  ELSE Outcomes(OnSleepDone(c))

\* every caller in agent.js leaves maxAttempts at its default
CallOutcomes == Outcomes(CallStart(DefaultMaxAttempts, DefaultTemperature))

\* callChatText (agent.js:178-181): one completion, trimmed, no retry
TextOutcomes ==
  {[pc |-> "raised", value |-> None, error |-> m] : m \in HandlerApiErrors}
    \cup {[pc |-> "returned", value |-> t, error |-> NoMsg] :
             t \in {"", "text"}}

(***************************************************************************)
(* Sessions                                                                *)
(***************************************************************************)
\* the non-empty "questions" arrays the interviewer model returns: one
\* question, one per skill, and two questions on the same skill
Plans ==
  { <<[skill |-> "A", question |-> "qA"]>>,
    <<[skill |-> "A", question |-> "qA"], [skill |-> "B", question |-> "qB"]>>,
    <<[skill |-> "A", question |-> "qA"], [skill |-> "A", question |-> "qA2"]>> }

\* the "questions" property of a parsed plan object: absent, or an array
PlanQuestionValues ==
  {[isArray |-> FALSE, items |-> <<>>]}
    \cup {[isArray |-> TRUE, items |-> p] : p \in {<<>>} \cup Plans}

SKIPPED == <<"[", "S", "K", "I", "P", "P", "E", "D", "]">>

\* request bodies' "answer"
Answers == { <<" ">>, <<" ">> \o SKIPPED \o <<"\n">>, <<"a", " ">> }

\* the parsed follow-up decision objects: need_followup by truthiness,
\* followup_question null, "" or a question
Decisions ==
  [need_followup : BOOLEAN, followup_question : {None, "", "fq"}]

\* error messages of the handlers and of what they call
HandlerMsg ==
  [notFoundStartAgain |->
     <<"Session", "not", "found", ".", "Start", "again", ".">>,
   notFound |-> <<"Session", "not", "found", ".">>,
   noQuestion |-> <<"No", "current", "question", ".">>,
   planMissing |-> <<"Interview", "plan", "missing", "questions", ".">>,
   emptyAnswer |-> <<"Model", "returned", "empty", "answer", ".">>,
   typeErrorUndefined |-> <<"Cannot", "read", "properties", "of", "undefined">>,
   typeErrorNull |-> <<"Cannot", "read", "properties", "of", "null">>,
   writeFailed |-> <<"ENOSPC", "write">>]

NoNext == [skill |-> None, question |-> None]
\* a response: status and the body's error / done / next
Response(status) ==
  [status |-> status, error |-> NoMsg, done |-> None, next |-> NoNext]
NoResponse == Response(0)

NoSession ==
  [planQuestions |-> <<>>, idx |-> 0, transcript |-> <<>>, followupsLeft |-> 0]
\* a suspended handler: its locals, and the session as the request found it
NoReq ==
  [op |-> None, sid |-> 0, skillName |-> None, recentQA |-> <<>>,
   before |-> NoSession]

\* ErrorResponse, were the status left at that of a success
ErrorResponseAccepted(status, msg) == [Response(200) EXCEPT !.error = msg]

\* res.status(status).json({ error: msg })
ErrorResponse(status, msg) == [Response(status) EXCEPT !.error = msg]

Ids == 1..MaxSessions

\* sessions created plus transcript entries written
Size ==
  LET RECURSIVE Sum(_)
      Sum(i) == IF i = 0 THEN 0
                ELSE Len(sess[i].transcript) + Sum(i - 1)
  IN (nextId - 1) + Sum(MaxSessions)

InflightFor(sid) ==
  {k \in 1..MaxInflight : reqs[k] # NoReq /\ reqs[k].sid = sid}

FreeSlots == {k \in 1..MaxInflight : reqs[k] = NoReq}

\* a client that awaits each response has nothing in flight on the session
MayBegin(sid) ==
  /\ FreeSlots # {}
  /\ mode = "sequential" => InflightFor(sid) = {}

Slot == CHOOSE k \in FreeSlots : \A j \in FreeSlots : k <= j

\* Registered, were every id taken for that of a session
RegisteredAlways(registry, sid) == TRUE

\* "const s = sessions.get(sessionId); if (!s) ...": is s a session
Registered(registry, sid) == sid \in registry

\* buildInterviewPlan (agent.js:243-269) on the outcome of its callChatJSON
buildInterviewPlan(out, questions) ==
  IF out.pc = "raised"
    THEN [ok |-> FALSE, error |-> out.error, questions |-> <<>>]
  ELSE IF out.value = "null"
    THEN [ok |-> FALSE, error |-> HandlerMsg.typeErrorNull, questions |-> <<>>]
  ELSE IF out.value # "object" \/ ~questions.isArray \/ Len(questions.items) = 0
    THEN [ok |-> FALSE, error |-> HandlerMsg.planMissing, questions |-> <<>>]
  ELSE [ok |-> TRUE, error |-> NoMsg, questions |-> questions.items]

\* what "await buildInterviewPlan(matrix)" can give
PlanResults ==
  {buildInterviewPlan(out, q) : out \in CallOutcomes, q \in PlanQuestionValues}

\* NewSession, were the budget left at zero
NewSessionNoBudget(questions) ==
  [planQuestions |-> questions, idx |-> 0, transcript |-> <<>>,
   followupsLeft |-> 0]

\* lines 801-809: the session object /api/start registers
NewSession(questions) ==
  [planQuestions |-> questions, idx |-> 0, transcript |-> <<>>,
   followupsLeft |-> MAX_FOLLOWUPS_PER_SKILL]

\* POST /api/start (agent.js:793-815)
Start(plan) ==
  /\ nextId <= quota.sessions
  /\ Size < quota.size
  /\ IF plan.ok
       THEN /\ sessions' = sessions \cup {nextId}
            /\ sess' = [sess EXCEPT ![nextId] = NewSession(plan.questions)]
            /\ nextId' = nextId + 1
            /\ resp' = [Response(200) EXCEPT
                          !.next = plan.questions[1]]
       ELSE /\ resp' = ErrorResponse(500, plan.error)
            /\ UNCHANGED <<sessions, sess, nextId>>
  /\ UNCHANGED <<fixed, reqs, assessed, cj, fin>>

\* Recent, were the slice one entry longer
RecentFour(transcript, skillName) ==
  LET f == SelectSeq(transcript, LAMBDA t : t.skill = skillName) IN
  IF Len(f) <= 4 THEN f ELSE SubSeq(f, Len(f) - 3, Len(f))

\* s.transcript.filter((t) => t.skill === skillName).slice(-3)
Recent(transcript, skillName) ==
  LET f == SelectSeq(transcript, LAMBDA t : t.skill = skillName) IN
  IF Len(f) <= 3 THEN f ELSE SubSeq(f, Len(f) - 2, Len(f))

\* Advance, were the cursor moved past the next question as well
AdvanceTwo(s) ==
  [s EXCEPT !.idx = s.idx + 2, !.followupsLeft = MAX_FOLLOWUPS_PER_SKILL]

\* lines 844-848: advance the cursor and answer with the next question
Advance(s) ==
  [s EXCEPT !.idx = s.idx + 1, !.followupsLeft = MAX_FOLLOWUPS_PER_SKILL]

\* AdvanceResponse, were the interview declared done one question early
AdvanceResponseEarly(s1) ==
  IF s1.idx + 1 >= Len(s1.planQuestions)
    THEN [Response(200) EXCEPT !.done = "true"]
    ELSE [Response(200) EXCEPT
            !.done = "false", !.next = s1.planQuestions[s1.idx + 1]]

\* lines 847-848: done, or the next plan question
AdvanceResponse(s1) ==
  IF s1.idx >= Len(s1.planQuestions)
    THEN [Response(200) EXCEPT !.done = "true"]
    ELSE [Response(200) EXCEPT
            !.done = "false", !.next = s1.planQuestions[s1.idx + 1]]

\* ShouldDecide, were the budget not looked at
ShouldDecideAnyBudget(s, answer) ==
  trim(answer) # <<>> /\ trim(answer) # SKIPPED

\* line 836: is the model asked for a follow-up decision
ShouldDecide(s, answer) ==
  s.followupsLeft > 0 /\ trim(answer) # <<>> /\ trim(answer) # SKIPPED

\* TakeFollowup, were the budget used up at once
TakeFollowupAll(s) == [s EXCEPT !.followupsLeft = 0]

\* line 839: a follow-up is asked
TakeFollowup(s) == [s EXCEPT !.followupsLeft = s.followupsLeft - 1]

\* push, were the entry written over the last one
pushOverLast(transcript, entry) ==
  IF transcript = <<>> THEN <<entry>>
  ELSE [transcript EXCEPT ![Len(transcript)] = entry]

\* line 832: s.transcript.push({ skill, question, answer })
push(transcript, entry) == Append(transcript, entry)

\* POST /api/answer (agent.js:821-837), up to the await of decideFollowup
AnswerBegin(sid, answer) ==
  /\ MayBegin(sid)
  /\ IF ~Registered(sessions, sid)
       THEN /\ resp' = ErrorResponse(400, HandlerMsg.notFoundStartAgain)
            /\ UNCHANGED <<sess, reqs>>
     ELSE IF sess[sid].idx >= Len(sess[sid].planQuestions)
       THEN \* q is undefined: q.skill throws, caught at line 849
            /\ resp' = ErrorResponse(500, HandlerMsg.typeErrorUndefined)
            /\ UNCHANGED <<sess, reqs>>
     ELSE
       LET s == sess[sid]
           q == s.planQuestions[s.idx + 1]
           skillName == q.skill
           pushed == [s EXCEPT !.transcript =
                        push(s.transcript,
                             [skill |-> skillName, question |-> q.question,
                              answer |-> answer])]
           recent == Recent(pushed.transcript, skillName)
       IN /\ Size < quota.size
          /\ IF ShouldDecide(s, answer)
               THEN /\ sess' = [sess EXCEPT ![sid] = pushed]
                    /\ reqs' = [reqs EXCEPT ![Slot] =
                         [op |-> "answer", sid |-> sid, skillName |-> skillName,
                          recentQA |-> recent, before |-> s]]
                    /\ UNCHANGED resp
               ELSE /\ sess' = [sess EXCEPT ![sid] = Advance(pushed)]
                    /\ resp' = AdvanceResponse(Advance(pushed))
                    /\ UNCHANGED reqs
  /\ UNCHANGED <<fixed, sessions, nextId, assessed, cj, fin>>

NoFollowup ==
  [ok |-> TRUE, error |-> NoMsg, need_followup |-> FALSE,
   followup_question |-> None]

\* decideFollowup (agent.js:274-302): its callChatJSON and what it makes of
\* the parsed decision d
decideFollowupCall(out, d) ==
  IF out.pc = "raised"
    THEN [NoFollowup EXCEPT !.ok = FALSE, !.error = out.error]
  ELSE IF out.value = "null"
    THEN [NoFollowup EXCEPT !.ok = FALSE, !.error = HandlerMsg.typeErrorNull]
  ELSE IF out.value # "object" THEN NoFollowup
  ELSE [NoFollowup EXCEPT
          !.need_followup = d.need_followup,
          !.followup_question =
             IF d.followup_question = "" THEN None ELSE d.followup_question]

DecisionResults ==
  {decideFollowupCall(out, d) : out \in CallOutcomes, d \in Decisions}

\* decideFollowup (agent.js:271-303); line 272 answers without a model call
decideFollowup(called) ==
  IF MAX_FOLLOWUPS_PER_SKILL = 0 THEN NoFollowup ELSE called

\* Collect, were the objects kept for suspended handlers only
CollectPendingOnly(objs, registry, pending) ==
  [i \in Ids |->
     IF \E k \in 1..MaxInflight : pending[k].sid = i
       THEN objs[i] ELSE NoSession]

\* objects no registry entry and no suspended handler refers to are gone
Collect(objs, registry, pending) ==
  [i \in Ids |->
     IF i \in registry \/ \E k \in 1..MaxInflight : pending[k].sid = i
       THEN objs[i] ELSE NoSession]

\* POST /api/answer (agent.js:837-851), from the await of decideFollowup on
AnswerResume(k, called) ==
  /\ reqs[k] # NoReq
  /\ reqs[k].op = "answer"
  /\ LET r == reqs[k]
         s == sess[r.sid]
         decision == decideFollowup(called)
         left == [reqs EXCEPT ![k] = NoReq]
     IN IF ~decision.ok
          THEN /\ resp' = ErrorResponse(500, decision.error)
               /\ sess' = Collect(sess, sessions, left)
        ELSE IF decision.need_followup /\ decision.followup_question # None
          THEN /\ sess' = Collect([sess EXCEPT ![r.sid] = TakeFollowup(s)],
                                  sessions, left)
               /\ resp' = [Response(200) EXCEPT
                     !.done = "false",
                     !.next = [skill |-> r.skillName,
                               question |-> decision.followup_question]]
        ELSE /\ sess' = Collect([sess EXCEPT ![r.sid] = Advance(s)],
                                  sessions, left)
             /\ resp' = AdvanceResponse(Advance(s))
  /\ reqs' = [reqs EXCEPT ![k] = NoReq]
  /\ UNCHANGED <<fixed, sessions, nextId, assessed, cj, fin>>

\* AutoAnswer, were the cursor moved on by a generated answer
AutoAnswerAdvancing(sid, out) ==
  /\ MayBegin(sid)
  /\ Registered(sessions, sid)
  /\ sess[sid].idx < Len(sess[sid].planQuestions)
  /\ out.pc = "returned"
  /\ out.value # ""
  /\ sess' = [sess EXCEPT ![sid] = Advance(sess[sid])]
  /\ resp' = Response(200)
  /\ UNCHANGED <<fixed, sessions, nextId, reqs, assessed, cj, fin>>

\* POST /api/auto-answer (agent.js:858-903)
AutoAnswer(sid, out) ==
  /\ MayBegin(sid)
  /\ resp' =
       IF ~Registered(sessions, sid)
         THEN ErrorResponse(400, HandlerMsg.notFound)
       ELSE IF sess[sid].idx >= Len(sess[sid].planQuestions)
         THEN ErrorResponse(400, HandlerMsg.noQuestion)
       ELSE IF out.pc = "raised"
         THEN ErrorResponse(500, out.error)
       ELSE IF out.value = ""
         THEN ErrorResponse(500, HandlerMsg.emptyAnswer)
       ELSE Response(200)
  /\ UNCHANGED <<fixed, sessions, sess, nextId, reqs,
                 assessed, cj, fin>>

\* POST /api/auto-exercise (agent.js:909-951)
AutoExercise(sid, out) ==
  /\ MayBegin(sid)
  /\ resp' =
       IF ~Registered(sessions, sid)
         THEN ErrorResponse(400, HandlerMsg.notFound)
       ELSE IF out.pc = "raised"
         THEN ErrorResponse(500, out.error)
       ELSE IF out.value = ""
         THEN ErrorResponse(500, HandlerMsg.emptyAnswer)
       ELSE Response(200)
  /\ UNCHANGED <<fixed, sessions, sess, nextId, reqs,
                 assessed, cj, fin>>

\* POST /api/finish (agent.js:957-982), up to the await of the first assessor
FinishBegin(sid) ==
  /\ MayBegin(sid)
  /\ IF ~Registered(sessions, sid)
       THEN /\ resp' = ErrorResponse(400, HandlerMsg.notFoundStartAgain)
            /\ UNCHANGED reqs
       ELSE /\ reqs' = [reqs EXCEPT ![Slot] =
                 [op |-> "finish", sid |-> sid, skillName |-> None,
                  recentQA |-> <<>>, before |-> sess[sid]]]
            /\ UNCHANGED resp
  /\ UNCHANGED <<fixed, sessions, sess, nextId,
                 assessed, cj, fin>>

\* the first assessor call that raised, if any (agent.js:978-994)
FirstRaised(outs) ==
  LET raised == {i \in 1..Len(outs) : outs[i].pc = "raised"} IN
  IF raised = {} THEN 0 ELSE CHOOSE i \in raised : \A j \in raised : i <= j

\* Assess, were only the first assessor call awaited for its failure
AssessFirstOnly(outs) ==
  IF outs[1].pc = "raised"
    THEN [ok |-> FALSE, error |-> outs[1].error]
  ELSE [ok |-> TRUE, error |-> NoMsg]

\* lines 978-998: the three assessor calls in turn, then normalization
Assess(outs) ==
  IF FirstRaised(outs) # 0
    THEN [ok |-> FALSE, error |-> outs[FirstRaised(outs)].error]
  ELSE IF \E i \in 1..Len(outs) : outs[i].value = "null"
    THEN \* normalizeAssessorResult reads raw.skill_scores of null
         [ok |-> FALSE, error |-> HandlerMsg.typeErrorNull]
  ELSE [ok |-> TRUE, error |-> NoMsg]

AssessResults == {Assess(outs) : outs \in [1..3 -> CallOutcomes]}

\* Delete, were the entry left in the registry
DeleteNothing(registry, sid) == registry

\* line 1074: sessions.delete(sessionId)
Delete(registry, sid) == registry \ {sid}

\* POST /api/finish (agent.js:978-1085), from the first assessor call on: the
\* assessments, the audit file, sessions.delete and the response.  Between
\* its awaits the handler touches no session state.
FinishResume(k, assessment, writeOk) ==
  /\ reqs[k] # NoReq
  /\ reqs[k].op = "finish"
  /\ LET r == reqs[k]
         left == [reqs EXCEPT ![k] = NoReq]
     IN
     IF ~assessment.ok
       THEN /\ resp' = ErrorResponse(500, assessment.error)
            /\ sess' = Collect(sess, sessions, left)
            /\ UNCHANGED <<sessions, assessed>>
     ELSE IF ~writeOk
       THEN /\ resp' = ErrorResponse(500, HandlerMsg.writeFailed)
            /\ sess' = Collect(sess, sessions, left)
            /\ UNCHANGED <<sessions, assessed>>
     ELSE /\ assessed' = [assessed EXCEPT ![r.sid] = assessed[r.sid] + 1]
          /\ sessions' = Delete(sessions, r.sid)
          /\ sess' = Collect(sess, Delete(sessions, r.sid), left)
          /\ resp' = Response(200)
  /\ reqs' = [reqs EXCEPT ![k] = NoReq]
  /\ UNCHANGED <<fixed, nextId, cj, fin>>

InitSessIdle ==
  /\ MAX_FOLLOWUPS_PER_SKILL = 1
  /\ mode = "sequential"
  /\ quota = [sessions |-> 0, size |-> 0]
  /\ sessions = {}
  /\ sess = [i \in 1..MaxSessions |-> NoSession]
  /\ nextId = 1
  /\ reqs = [k \in 1..MaxInflight |-> NoReq]
  /\ resp = NoResponse
  /\ assessed = [i \in 1..MaxSessions |-> 0]

InitCall ==
  /\ InitSessIdle
  /\ fin = IdleFin
  /\ \E m \in 1..MaxAttemptsBound, t \in {DefaultTemperature, 25} :
       cj = CallStart(m, t)

NextCall ==
  \/ \E content \in Contents : PrimaryResolves(content)
  \/ \E msg \in ApiErrors : PrimaryRejects(msg)
  \/ \E content \in Contents : RepairResolves(content)
  \/ \E msg \in ApiErrors : RepairRejects(msg)
  \/ SleepDone

SpecCall == InitCall /\ [][NextCall]_vars

\* a started completion request resolves or rejects, and a timer fires
SpecCallFair == SpecCall /\ WF_vars(NextCall)

InitSessions ==
  /\ MAX_FOLLOWUPS_PER_SKILL \in 0..MaxFollowupsBound
  /\ sessions = {}
  /\ sess = [i \in Ids |-> NoSession]
  /\ nextId = 1
  /\ reqs = [k \in 1..MaxInflight |-> NoReq]
  /\ resp = NoResponse
  /\ assessed = [i \in Ids |-> 0]
  /\ cj = IdleCall
  /\ fin = IdleFin

Init ==
  /\ InitSessions
  /\ mode = "sequential"
  /\ quota = [sessions |-> MaxSessions, size |-> MaxSize]

InitDeep ==
  /\ InitSessions
  /\ mode = "sequential"
  /\ quota = [sessions |-> 1, size |-> DeepSize]

Next ==
  \/ \E plan \in PlanResults : Start(plan)
  \/ \E sid \in Ids, answer \in Answers : AnswerBegin(sid, answer)
  \/ \E k \in 1..MaxInflight, called \in DecisionResults :
       AnswerResume(k, called)
  \/ \E sid \in Ids, out \in TextOutcomes : AutoAnswer(sid, out)
  \/ \E sid \in Ids, out \in TextOutcomes : AutoExercise(sid, out)
  \/ \E sid \in Ids : FinishBegin(sid)
  \/ \E k \in 1..MaxInflight, assessment \in AssessResults,
        writeOk \in BOOLEAN : FinishResume(k, assessment, writeOk)

\* every client awaits each response before its next request on a session
Spec == Init /\ [][Next]_vars

\* the same, following one session further
SpecDeep == InitDeep /\ [][Next]_vars

InitPair ==
  /\ InitSessions
  /\ mode = "sequential"
  /\ quota = [sessions |-> 2, size |-> MaxSize]

\* two sessions side by side, each client awaiting its responses
SpecPair == InitPair /\ [][Next]_vars

InitConc ==
  /\ InitSessions
  /\ mode = "concurrent"
  /\ quota = [sessions |-> 1, size |-> MaxSize]

\* a client that does not await: requests on one session overlap
SpecConc == InitConc /\ [][Next]_vars

(***************************************************************************)
(* JavaScript values found in parsed model output.  A number is the ratio  *)
(* n / d, raw numbers being held in tenths (n = 25, d = 10 is 2.5); a      *)
(* string is a sequence of characters; Val names null, undefined, NaN,     *)
(* Infinity and -Infinity.                                                 *)
(***************************************************************************)
Max(a, b) == IF a >= b THEN a ELSE b

Ratio(n, d) == [t |-> "number", n |-> n, d |-> d, s |-> <<>>]
Num(n) == Ratio(n, 10)
IntNum(k) == Num(10 * k)
Str(s) == [t |-> "string", n |-> 0, d |-> 1, s |-> s]
Val(t) == [t |-> t, n |-> 0, d |-> 1, s |-> <<>>]

DigitChars == <<"0", "1", "2", "3", "4", "5", "6", "7", "8", "9">>

\* the value of a digit character, -1 for any other character
digitValue(ch) ==
  IF \E i \in 1..10 : DigitChars[i] = ch
    THEN (CHOOSE i \in 1..10 : DigitChars[i] = ch) - 1
    ELSE -1

\* the digits a text starts with: how many, their value, and what follows
RECURSIVE digitsPrefix(_, _, _)
digitsPrefix(t, count, value) ==
  IF t # <<>> /\ digitValue(Head(t)) >= 0
    THEN digitsPrefix(Tail(t), count + 1, 10 * value + digitValue(Head(t)))
    ELSE [count |-> count, value |-> value, rest |-> t]

\* an optional sign and the digits after it
numeral(t) ==
  LET signed == t # <<>> /\ Head(t) \in {"-", "+"}
      p == digitsPrefix(IF signed THEN Tail(t) ELSE t, 0, 0)
  IN [p EXCEPT !.value = IF signed /\ Head(t) = "-" THEN -p.value
                         ELSE p.value]

\* parseInt(v, 10) of a value that is not a finite number: String(v), then
\* leading whitespace, a sign and digits
parseInt(v) ==
  IF v.t # "string" THEN Val("NaN")
  ELSE LET p == numeral(trimStart(v.s)) IN
       IF p.count = 0 THEN Val("NaN") ELSE IntNum(p.value)

\* ToNumber(v), the coercion Math.round applies to its argument (numeric
\* strings with at most one fractional digit)
ToNumber(v) ==
  IF v.t \in {"number", "NaN", "Infinity", "-Infinity"} THEN v
  ELSE IF v.t = "null" THEN IntNum(0)
  ELSE IF v.t = "undefined" THEN Val("NaN")
  ELSE LET u == trim(v.s)
           p == numeral(u)
       IN IF u = <<>> THEN IntNum(0)
          ELSE IF p.count = 0 THEN Val("NaN")
          ELSE IF p.rest = <<>> THEN IntNum(p.value)
          ELSE IF /\ Len(p.rest) = 2
                  /\ p.rest[1] = "."
                  /\ digitValue(p.rest[2]) >= 0
            THEN Num(10 * p.value
                       + (IF Head(u) = "-" THEN -1 ELSE 1)
                           * digitValue(p.rest[2]))
          ELSE Val("NaN")

\* Math.round of a finite number n / d: the floor of n / d + 1 / 2
roundNum(x) == (2 * x.n + x.d) \div (2 * x.d)

\* Math.round(x), x a number, NaN or an infinity
MathRound(x) == IF x.t = "number" THEN IntNum(roundNum(x)) ELSE x

\* Math.min(a, b) and Math.max(a, b) of rounded numbers: NaN if either is NaN
MathMin(a, b) ==
  IF a.t = "NaN" \/ b.t = "NaN" THEN Val("NaN")
  ELSE IF a.t = "-Infinity" \/ b.t = "-Infinity" THEN Val("-Infinity")
  ELSE IF a.t = "Infinity" THEN b
  ELSE IF b.t = "Infinity" THEN a
  ELSE Num(Min(a.n, b.n))

MathMax(a, b) ==
  IF a.t = "NaN" \/ b.t = "NaN" THEN Val("NaN")
  ELSE IF a.t = "Infinity" \/ b.t = "Infinity" THEN Val("Infinity")
  ELSE IF a.t = "-Infinity" THEN b
  ELSE IF b.t = "-Infinity" THEN a
  ELSE Num(Max(a.n, b.n))

\* clampInt, were the rounded number returned as it is
clampIntUnbounded(n, min, max) ==
  LET x == IF n.t = "number" THEN n ELSE parseInt(n) IN
  IF x.t # "number" THEN min ELSE roundNum(x)

\* clampInt (agent.js:101-105); Number.isFinite is true of finite numbers
\* only; min and max are integers, and so is the result
clampInt(n, min, max) ==
  LET x == IF n.t = "number" THEN n ELSE parseInt(n) IN
  IF x.t # "number" THEN min ELSE Max(min, Min(max, roundNum(x)))

\* clamp (agent.js:1130-1132)
clamp(n) == MathMax(IntNum(1), MathMin(IntNum(9), MathRound(ToNumber(n))))

MaxRaw == 11   \* raw numbers run from -2.0 to MaxRaw, in tenths

\* values a model puts where a score is expected, or leaves out
RawValues ==
  {Num(n) : n \in (-20)..(10 * MaxRaw)}
    \cup {Str(s) : s \in { <<>>, <<"7">>, <<" ", "4">>, <<"1", "2">>,
                           <<"-", "3">>, <<"7", ".", "9">>, <<"8", "x">>,
                           <<"a", "b">> }}
    \cup {Val(t) : t \in {"null", "undefined", "NaN", "Infinity",
                          "-Infinity"}}

\* clampInt applied to a raw value, and to its own result
ApplyClampInt ==
  /\ fin.pc = "value"
  /\ fin' = [fin EXCEPT !.pc = "clamped", !.fn = "clampInt",
               !.once = IntNum(clampInt(fin.n, 1, 9)),
               !.twice = IntNum(clampInt(IntNum(clampInt(fin.n, 1, 9)), 1, 9))]
  /\ UNCHANGED <<sessVars, cj>>

\* clamp applied to a raw value, and to its own result
ApplyClamp ==
  /\ fin.pc = "value"
  /\ fin' = [fin EXCEPT !.pc = "clamped", !.fn = "clamp",
               !.once = clamp(fin.n), !.twice = clamp(clamp(fin.n))]
  /\ UNCHANGED <<sessVars, cj>>

(***************************************************************************)
(* normalizeAssessorResult (agent.js:389-435).  Skill names are sequences  *)
(* of characters.                                                          *)
(***************************************************************************)
MaxEntries == 2   \* longest raw skill_scores array

\* matrix.skills of the loaded skills matrix: names and weights
Matrices ==
  { <<[name |-> <<"A">>, weight |-> 1]>>,
    <<[name |-> <<"A">>, weight |-> 1], [name |-> <<"B">>, weight |-> 3]>>,
    <<[name |-> <<"B">>, weight |-> 2], [name |-> <<"A">>, weight |-> 2],
      [name |-> <<"C">>, weight |-> 1]>> }

\* an array-valued property: absent (or not an array), or an array
NotArray == [isArray |-> FALSE, items |-> <<>>]
Array(items) == [isArray |-> TRUE, items |-> items]

\* a raw entry without its name: its two score properties and its details
RawEntryBodies ==
  { [score_1_to_9 |-> IntNum(7), score |-> Val("undefined"),
     confidence_low_med_high |-> None, assessor_stance |-> None,
     evidence_bullets |-> NotArray, risks |-> NotArray,
     followups |-> NotArray],
    [score_1_to_9 |-> Val("undefined"), score |-> IntNum(3),
     confidence_low_med_high |-> "high", assessor_stance |-> "lenient",
     evidence_bullets |-> Array(<<"e1", "e2", "e3", "e4">>),
     risks |-> Array(<<"r1", "r2", "r3">>),
     followups |-> Array(<<"f1", "f2", "f3">>)],
    [score_1_to_9 |-> Num(125), score |-> IntNum(2),
     confidence_low_med_high |-> "high", assessor_stance |-> None,
     evidence_bullets |-> Array(<<"e1">>), risks |-> Array(<<>>),
     followups |-> NotArray],
    [score_1_to_9 |-> Val("null"), score |-> Num(-20),
     confidence_low_med_high |-> None, assessor_stance |-> None,
     evidence_bullets |-> NotArray, risks |-> NotArray,
     followups |-> NotArray],
    [score_1_to_9 |-> Str(<<"a", "b">>), score |-> IntNum(5),
     confidence_low_med_high |-> None, assessor_stance |-> None,
     evidence_bullets |-> NotArray, risks |-> NotArray,
     followups |-> NotArray] }

\* the elements of a raw skill_scores array: null, or an object whose
\* "skill" is absent, a matrix name, a matrix name with surrounding
\* whitespace, or a name the matrix does not have
RawEntries ==
  {[isNull |-> FALSE, skill |-> s, body |-> b] :
      s \in { <<>>, <<"A">>, <<"B">>, <<" ", "A", " ">>, <<"B", "\n">>,
              <<"Z">> },
      b \in RawEntryBodies}
    \cup {[isNull |-> TRUE, skill |-> <<>>,
           body |-> CHOOSE b \in RawEntryBodies : b.score_1_to_9.t = "null"]}

\* what callChatJSON hands to the normalizer: null, or an object with its
\* skill_scores and exercise_score_1_to_9
RawOutputs ==
  {[isNull |-> TRUE, skill_scores |-> NotArray,
    exercise_score_1_to_9 |-> Val("undefined")]}
    \cup {[isNull |-> FALSE, skill_scores |-> ss, exercise_score_1_to_9 |-> e] :
            ss \in {NotArray}
                     \cup {Array(l) :
                             l \in UNION {[1..n -> RawEntries] :
                                            n \in 0..MaxEntries}},
            e \in {Val("undefined"), Num(65), Num(-20), IntNum(40)}}

\* skillNames, were the last skill of the matrix left out
skillNamesButLast(skills) ==
  [i \in 1..(Len(skills) - 1) |-> skills[i].name]

\* line 390
skillNames(skills) == [i \in 1..Len(skills) |-> skills[i].name]

\* lines 392, 395, map.get(name): the last entry put under the key, which
\* is its trimmed name; 0 if there is none
mapGet(incoming, name) ==
  LET hits == {i \in 1..Len(incoming) : trim(incoming[i].skill) = name} IN
  IF hits = {} THEN 0 ELSE CHOOSE i \in hits : \A j \in hits : j <= i

slice(a, n) == SubSeq(a, 1, Min(n, Len(a)))

\* lines 397-408
DefaultSkillScore(name, stanceLabel) ==
  [skill |-> name, score_1_to_9 |-> 1, confidence_low_med_high |-> "low",
   assessor_stance |-> stanceLabel,
   evidence_bullets |-> <<"No evidence captured for this skill.">>,
   risks |-> <<"Evidence gap", "Unverified capability">>,
   followups |-> <<"Give a specific example you personally delivered.",
                   "How did you validate and handle failures?">>]

\* lines 411-421
NormalizedSkillScore(name, b, stanceLabel) ==
  [skill |-> name,
   score_1_to_9 |->
     clampInt(IF b.score_1_to_9.t \in {"null", "undefined"} THEN b.score
              ELSE b.score_1_to_9, 1, 9),
   confidence_low_med_high |->
     IF b.confidence_low_med_high = None THEN "medium"
     ELSE b.confidence_low_med_high,
   assessor_stance |->
     IF b.assessor_stance = None THEN stanceLabel ELSE b.assessor_stance,
   evidence_bullets |->
     IF b.evidence_bullets.isArray THEN slice(b.evidence_bullets.items, 3)
     ELSE <<>>,
   risks |-> IF b.risks.isArray THEN slice(b.risks.items, 2) ELSE <<>>,
   followups |->
     IF b.followups.isArray THEN slice(b.followups.items, 2) ELSE <<>>]

\* the TypeError of reading a property of null
NormThrown ==
  [ok |-> FALSE, error |-> HandlerMsg.typeErrorNull, skill_scores |-> <<>>,
   exercise_score_1_to_9 |-> 0]

normalizeAssessorResult(skills, raw, stanceLabel) ==
  IF raw.isNull THEN NormThrown   \* raw.skill_scores throws
  ELSE
    LET names == skillNames(skills)
        incoming == IF raw.skill_scores.isArray THEN raw.skill_scores.items
                    ELSE <<>>
    IN IF \E i \in 1..Len(incoming) : incoming[i].isNull
         THEN NormThrown          \* x.skill throws at line 392
         ELSE
           [ok |-> TRUE, error |-> NoMsg,
            skill_scores |->
              [i \in 1..Len(names) |->
                 LET k == mapGet(incoming, names[i]) IN
                 IF k = 0 THEN DefaultSkillScore(names[i], stanceLabel)
                 ELSE NormalizedSkillScore(names[i], incoming[k].body,
                                           stanceLabel)],
            exercise_score_1_to_9 |->
              clampInt(raw.exercise_score_1_to_9, 1, 9)]

\* lines 996-998: one assessor's output normalized
Normalize ==
  /\ fin.pc = "raw"
  /\ fin' = [fin EXCEPT !.pc = "normalized",
               !.norm = normalizeAssessorResult(fin.skills, fin.raw,
                                                fin.stanceLabel)]
  /\ UNCHANGED <<sessVars, cj>>

(***************************************************************************)
(* Scores on the 0-100 scale (agent.js:195-214)                            *)
(***************************************************************************)
MaxScored == 3   \* longest skill_scores list given to the aggregator

\* score1to9_to_0to100 (agent.js:195-198)
score1to9_to_0to100(score1to9) ==
  LET s == clampInt(score1to9, 1, 9) IN roundNum(Ratio((s - 1) * 100, 8))

\* wMap.get(name), were a skill the matrix does not have given weight 1
wMapGetOrOne(skills, name) ==
  LET hits == {i \in 1..Len(skills) : skills[i].name = name} IN
  IF hits = {} THEN 1
  ELSE skills[CHOOSE i \in hits : \A j \in hits : j <= i].weight

\* lines 201, 206: wMap.get(ss.skill) ?? 0
wMapGet(skills, name) ==
  LET hits == {i \in 1..Len(skills) : skills[i].name = name} IN
  IF hits = {} THEN 0
  ELSE skills[CHOOSE i \in hits : \A j \in hits : j <= i].weight

\* lines 202-209: totalW and weighted after the loop over skillScores
RECURSIVE weightTotals(_, _)
weightTotals(skillScores, skills) ==
  IF skillScores = <<>> THEN [totalW |-> 0, weighted |-> 0]
  ELSE LET n == Len(skillScores)
           t == weightTotals(SubSeq(skillScores, 1, n - 1), skills)
           w == wMapGet(skills, skillScores[n].skill)
       IN [totalW |-> t.totalW + w,
           weighted |-> t.weighted + w * skillScores[n].score_1_to_9]

\* weightedSkillsScore0to100 (agent.js:200-214)
weightedSkillsScore0to100(skillScores, skills) ==
  LET t == weightTotals(skillScores, skills) IN
  IF t.totalW <= 0 THEN 0
  ELSE score1to9_to_0to100(Ratio(t.weighted, t.totalW))

\* skill matrices the aggregator is run with: equal weights, mixed weights,
\* all weights 0
ScoreMatrices ==
  { <<[name |-> <<"A">>, weight |-> 2], [name |-> <<"B">>, weight |-> 2],
      [name |-> <<"C">>, weight |-> 2]>>,
    <<[name |-> <<"A">>, weight |-> 1], [name |-> <<"B">>, weight |-> 3],
      [name |-> <<"C">>, weight |-> 2]>>,
    <<[name |-> <<"A">>, weight |-> 1], [name |-> <<"B">>, weight |-> 1]>>,
    <<[name |-> <<"A">>, weight |-> 0], [name |-> <<"B">>, weight |-> 0]>> }

\* normalized skill_scores lists, as far as the aggregator reads them: of
\* matrix skills and of one ("Z") that the matrices above do not have
ScoreLists ==
  LET pool == <<<<"A">>, <<"B">>, <<"Z">>, <<"C">>, <<"A">>, <<"B">>>>
      lists == {SubSeq(pool, 1, n) : n \in 0..MaxScored} \cup {<<<<"Z">>>>}
  IN UNION {{[i \in 1..Len(names) |->
                [skill |-> names[i], score_1_to_9 |-> sc[i]]] :
               sc \in [1..Len(names) -> 1..9]} : names \in lists}

\* line 1001: the weighted score of a normalized list
ApplyWeighted ==
  /\ fin.pc = "scores"
  /\ fin' = [fin EXCEPT !.pc = "weighted",
               !.skills100 =
                 weightedSkillsScore0to100(fin.skill_scores, fin.skills)]
  /\ UNCHANGED <<sessVars, cj>>

(***************************************************************************)
(* IEEE-754 binary64 arithmetic, as far as the overall score needs it.  A  *)
(* natural number is a sequence of bits, least significant bit first; a    *)
(* non-negative double is m * 2^e, m a natural number of at most 53 bits   *)
(* (54 for the power of two that rounding up can carry into).              *)
(***************************************************************************)
RECURSIVE bitsOf(_)
bitsOf(n) == IF n = 0 THEN <<>> ELSE <<n % 2>> \o bitsOf(n \div 2)

RECURSIVE natOf(_)
natOf(b) == IF b = <<>> THEN 0 ELSE Head(b) + 2 * natOf(Tail(b))

RECURSIVE addBits(_, _, _)
addBits(a, b, carry) ==
  IF b = <<>> /\ carry = 0 THEN a
  ELSE IF a = <<>> /\ carry = 0 THEN b
  ELSE LET x == IF a = <<>> THEN 0 ELSE Head(a)
           y == IF b = <<>> THEN 0 ELSE Head(b)
           t == x + y + carry
       IN <<t % 2>> \o addBits(IF a = <<>> THEN a ELSE Tail(a),
                               IF b = <<>> THEN b ELSE Tail(b), t \div 2)

shiftLeft(a, k) == IF a = <<>> THEN a ELSE [i \in 1..k |-> 0] \o a

RECURSIVE mulBits(_, _)
mulBits(a, b) ==
  IF b = <<>> THEN <<>>
  ELSE addBits(IF Head(b) = 1 THEN a ELSE <<>>,
               shiftLeft(mulBits(a, Tail(b)), 1), 0)

\* the double nearest to m * 2^e, ties to the even mantissa
roundToDouble(m, e) ==
  IF Len(m) <= 53 THEN [m |-> m, e |-> e]
  ELSE LET d == Len(m) - 53
           kept == SubSeq(m, d + 1, Len(m))
           half == m[d] = 1
           sticky == \E i \in 1..(d - 1) : m[i] = 1
           up == half /\ (sticky \/ kept[1] = 1)
       IN [m |-> IF up THEN addBits(kept, <<1>>, 0) ELSE kept, e |-> e + d]

\* x * y and x + y of doubles
fmul(x, y) == roundToDouble(mulBits(x.m, y.m), x.e + y.e)

fadd(x, y) ==
  LET e == Min(x.e, y.e) IN
  roundToDouble(addBits(shiftLeft(x.m, x.e - e), shiftLeft(y.m, y.e - e), 0),
                e)

\* the bits of a mantissa written in hexadecimal digits, first digit first
RECURSIVE hexBits(_)
hexBits(h) ==
  IF h = <<>> THEN <<>>
  ELSE [i \in 1..4 |-> (h[Len(h)] \div (2 ^ (i - 1))) % 2]
         \o hexBits(SubSeq(h, 1, Len(h) - 1))

\* the literals 0.7 (0x3FE6666666666666) and 0.3 (0x3FD3333333333333): the
\* 52 bits of the fraction field under the implicit leading bit
Double07 ==
  [m |-> hexBits(<<6, 6, 6, 6, 6, 6, 6, 6, 6, 6, 6, 6, 6>>) \o <<1>>,
   e |-> -53]
Double03 ==
  [m |-> hexBits(<<3, 3, 3, 3, 3, 3, 3, 3, 3, 3, 3, 3, 3>>) \o <<1>>,
   e |-> -54]

\* Math.round(x) of a double: the floor of x + 1 / 2
mathRoundDouble(x) ==
  IF x.e >= 0 THEN natOf(shiftLeft(x.m, x.e))
  ELSE LET k == -x.e IN
       natOf(SubSeq(x.m, k + 1, Len(x.m)))
         + (IF Len(x.m) >= k THEN x.m[k] ELSE 0)

\* line 1002: Math.round(0.7 * skills + 0.3 * exercise)
weigh70to30(skills, exercise) ==
  mathRoundDouble(fadd(fmul(Double07, [m |-> bitsOf(skills), e |-> 0]),
                       fmul(Double03, [m |-> bitsOf(exercise), e |-> 0])))

\* overall(norm) (agent.js:1000-1003)
overall(norm, skills) ==
  weigh70to30(weightedSkillsScore0to100(norm.skill_scores, skills),
              score1to9_to_0to100(IntNum(norm.exercise_score_1_to_9)))

\* lines 1000-1003: the overall score of a normalized result and its parts
ApplyOverall ==
  /\ fin.pc = "norm"
  /\ fin' = [fin EXCEPT !.pc = "overall",
               !.skills100 =
                 weightedSkillsScore0to100(fin.norm.skill_scores, fin.skills),
               !.exercise100 =
                 score1to9_to_0to100(IntNum(fin.norm.exercise_score_1_to_9)),
               !.overall = overall(fin.norm, fin.skills)]
  /\ UNCHANGED <<sessVars, cj>>

(***************************************************************************)
(* compareMulti (agent.js:216-230)                                         *)
(***************************************************************************)
MaxCompared == 6   \* most skills in the first result

\* the score a result holds for a skill, were a result lacking it read as 0
scoreOfOrZero(r, skill) ==
  LET hits == {i \in 1..Len(r.norm.skill_scores) :
                 r.norm.skill_scores[i].skill = skill}
  IN IF hits = {} THEN 0
     ELSE r.norm.skill_scores[CHOOSE i \in hits :
                                \A j \in hits : i <= j].score_1_to_9

\* lines 220-221: the first entry found for the skill, 1 if there is none
scoreOf(r, skill) ==
  LET hits == {i \in 1..Len(r.norm.skill_scores) :
                 r.norm.skill_scores[i].skill = skill}
  IN IF hits = {} THEN 1
     ELSE r.norm.skill_scores[CHOOSE i \in hits :
                                \A j \in hits : i <= j].score_1_to_9

\* Math.min(...scores) and Math.max(...scores) of a non-empty list
minOf(scores) ==
  CHOOSE m \in {scores[i] : i \in 1..Len(scores)} :
    \A i \in 1..Len(scores) : m <= scores[i]

maxOf(scores) ==
  CHOOSE m \in {scores[i] : i \in 1..Len(scores)} :
    \A i \in 1..Len(scores) : m >= scores[i]

\* lines 218-227
rowOf(results, skill) ==
  LET scores == [k \in 1..Len(results) |-> scoreOf(results[k], skill)] IN
  [skill |-> skill, scores |-> scores, min |-> minOf(scores),
   max |-> maxOf(scores), spread |-> maxOf(scores) - minOf(scores)]

\* a row put into a sorted list ahead of the rows of equal spread
insertRowFirst(sorted, row) ==
  LET before == {i \in 1..Len(sorted) : sorted[i].spread > row.spread}
      n == Cardinality(before)
  IN SubSeq(sorted, 1, n) \o <<row>> \o SubSeq(sorted, n + 1, Len(sorted))

\* a row put into a list sorted by descending spread: after the rows whose
\* spread is at least its own
insertRow(sorted, row) ==
  LET before == {i \in 1..Len(sorted) : sorted[i].spread >= row.spread}
      n == Cardinality(before)
  IN SubSeq(sorted, 1, n) \o <<row>> \o SubSeq(sorted, n + 1, Len(sorted))

\* line 228: rows.sort((a, b) => b.spread - a.spread), a stable sort
RECURSIVE sortBySpread(_)
sortBySpread(rows) ==
  IF rows = <<>> THEN <<>>
  ELSE insertRow(sortBySpread(SubSeq(rows, 1, Len(rows) - 1)),
                 rows[Len(rows)])

compareMulti(results) ==
  LET skills == IF results = <<>> THEN <<>>
                ELSE [i \in 1..Len(results[1].norm.skill_scores) |->
                        results[1].norm.skill_scores[i].skill]
      rows == sortBySpread([i \in 1..Len(skills) |->
                              rowOf(results, skills[i])])
  IN [rows |-> rows, biggest_disagreements |-> slice(rows, 5)]

\* the three results of /api/finish whose skills got the given scores:
\* patterns[i][k] is what assessor k gave skill i, 0 if its result lacks it
resultsOf(patterns) ==
  [k \in 1..3 |->
     [norm |->
        [skill_scores |->
           LET names == <<"A", "B", "C", "D", "E", "F", "G", "H">>
               all == [i \in 1..Len(patterns) |->
                         [skill |-> <<names[i]>>,
                          score_1_to_9 |-> patterns[i][k]]]
               present(x) == x.score_1_to_9 # 0
           IN SelectSeq(all, present)]]]

\* lines 1038-1042: the three results compared
ApplyCompare ==
  /\ fin.pc = "results"
  /\ fin' = [fin EXCEPT !.pc = "compared",
               !.disagreement = compareMulti(fin.results)]
  /\ UNCHANGED <<sessVars, cj>>

(***************************************************************************)
(* The scoring functions of /api/finish, each applied to inputs of its own *)
(***************************************************************************)
InitScoring ==
  /\ InitSessIdle
  /\ cj = IdleCall
  /\ \/ \E n \in RawValues :
          fin = [pc |-> "value", fn |-> None, n |-> n,
                 once |-> Val("undefined"), twice |-> Val("undefined")]
     \/ \E skills \in Matrices, raw \in RawOutputs,
           stanceLabel \in {"strict", "diverse"} :
          fin = [pc |-> "raw", skills |-> skills, raw |-> raw,
                 stanceLabel |-> stanceLabel, norm |-> NormThrown]
     \/ \E skills \in ScoreMatrices, l \in ScoreLists :
          fin = [pc |-> "scores", skills |-> skills, skill_scores |-> l,
                 skills100 |-> 0]
     \/ \E skills \in ScoreMatrices, e \in 1..9,
           l \in {x \in ScoreLists : Len(x) <= 1} :
          fin = [pc |-> "norm", skills |-> skills,
                 norm |-> [skill_scores |-> l, exercise_score_1_to_9 |-> e],
                 skills100 |-> 0, exercise100 |-> 0, overall |-> 0]
     \/ \E p \in UNION {[1..n -> { <<1, 1, 1>>, <<9, 1, 5>>, <<1, 9, 5>>,
                                    <<5, 0, 6>> }] : n \in 0..MaxCompared} :
          fin = [pc |-> "results", results |-> resultsOf(p),
                 disagreement |-> [rows |-> <<>>,
                                   biggest_disagreements |-> <<>>]]

NextScoring ==
  \/ ApplyClampInt
  \/ ApplyClamp
  \/ Normalize
  \/ ApplyWeighted
  \/ ApplyOverall
  \/ ApplyCompare

SpecScoring == InitScoring /\ [][NextScoring]_vars

(***************************************************************************)
(* cleanJSON applied to a JSON object inside surrounding decoration        *)
(***************************************************************************)
\* cleanJSON of the assessment script (agent.js:1111-1120): the slice is
\* taken whenever both braces are found; slice(a, b + 1) with b before a is
\* the empty string
cleanJSON_2(text) ==
  LET t == stripFenceEnd(stripFenceStart(stripFenceJson(trim(text))))
      a == indexOf(t, "{")
      b == lastIndexOf(t, "}")
  IN IF a # 0 /\ b # 0 THEN trim(SubSeq(t, a, b)) ELSE trim(t)

\* both cleanJSON functions applied to prefix \o J \o suffix
ApplyCleanJSON ==
  /\ fin.pc = "text"
  /\ fin' = [fin EXCEPT !.pc = "cleaned",
               !.cleaned = cleanJSON(fin.prefix \o fin.J \o fin.suffix),
               !.cleaned_2 = cleanJSON_2(fin.prefix \o fin.J \o fin.suffix)]
  /\ UNCHANGED <<sessVars, cj>>

\* a well-formed JSON object between a prefix and a suffix: whitespace,
\* prose, code fences with and without the "json" tag, and prose that has
\* braces of its own
InitClean ==
  /\ InitSessIdle
  /\ cj = IdleCall
  /\ LET Fence == <<"tick", "tick", "tick">> IN
     \E J \in { <<"{", "}">>, <<"{", "kv", "}">>,
                <<"{", "kv", "{", "kv", "}", "}">> },
        prefix \in { <<>>, <<" ", "\n">>, <<"x", " ">>, Fence \o <<"\n">>,
                     Fence \o <<"json", "\n">>, <<"tick", "JSON", " ">>,
                     <<"x", " ">> \o Fence \o <<"json", "\n">>,
                     <<"x", "{", "x", "}", " ">>, <<"x", "}", " ">>,
                     <<"x", "{", " ">> },
        suffix \in { <<>>, <<"\n", " ">>, <<" ", "x">>, <<"\n">> \o Fence,
                     <<"\n">> \o Fence \o <<" ", "x">>,
                     <<" ", "x", "{", "x", "}">>, <<" ", "x", "}">>,
                     <<" ", "{", "x">> } :
       fin = [pc |-> "text", J |-> J, prefix |-> prefix, suffix |-> suffix,
              cleaned |-> <<>>, cleaned_2 |-> <<>>]

NextClean == ApplyCleanJSON

SpecClean == InitClean /\ [][NextClean]_vars

(***************************************************************************)
(* Properties                                                              *)
(***************************************************************************)

\* C1: in every reachable state the follow-up budget of every session is at
\* least 0 and at most the configured MAX_FOLLOWUPS_PER_SKILL.
C1_BudgetInRange ==
  \A i \in Ids :
    /\ sess[i].followupsLeft >= 0
    /\ sess[i].followupsLeft <= MAX_FOLLOWUPS_PER_SKILL

\* two follow-ups have used the budget up, and a later request failed
C1_Witness ==
  \E i \in sessions :
    /\ MAX_FOLLOWUPS_PER_SKILL = 2
    /\ sess[i].followupsLeft = 0
    /\ Len(sess[i].transcript) = 2
    /\ resp.status = 500

\* C2: in every reachable state the cursor idx of every session is between 0
\* and the length of its question plan, also after answers submitted once
\* the plan is exhausted.
C2_CursorInRange ==
  \A i \in Ids :
    sess[i].idx >= 0 /\ sess[i].idx <= Len(sess[i].planQuestions)

\* an answer was submitted to a session whose plan is exhausted
C2_Witness ==
  \E i \in sessions :
    /\ sess[i].idx = Len(sess[i].planQuestions)
    /\ Len(sess[i].planQuestions) = 2
    /\ resp.status = 500
    /\ resp.error = HandlerMsg.typeErrorUndefined

\* C3: when the follow-up decision of an answer request fails, the request
\* returns an error and leaves the session's cursor, budget and transcript
\* as they were before the request.
C3_FailedDecisionLeavesSession ==
  [][\A k \in 1..MaxInflight :
       (reqs[k].op = "answer" /\ reqs'[k] = NoReq /\ resp'.status = 500)
         => sess'[reqs[k].sid] = reqs[k].before]_vars

\* C4: once finish has succeeded for a session id, the id is out of the
\* registry, every later answer, auto-answer, auto-exercise or finish request
\* on it is refused with 'Session not found' and changes nothing, and no
\* second assessment is produced for it.
C4_SingleUse ==
  [][\A i \in Ids :
       /\ assessed'[i] >= 1 => i \notin sessions'
       /\ assessed[i] >= 1 =>
            /\ assessed'[i] = assessed[i]
            /\ ( \/ \E a \in Answers : AnswerBegin(i, a)
                 \/ \E o \in TextOutcomes : AutoAnswer(i, o)
                 \/ \E o \in TextOutcomes : AutoExercise(i, o)
                 \/ FinishBegin(i) )
               => /\ resp'.status = 400
                  /\ includes(resp'.error, <<"Session", "not", "found">>)
                  /\ UNCHANGED <<sessions, sess, reqs, assessed>>]_vars

\* every session of the run was finished, and a later request was refused
C4_Witness ==
  /\ nextId = MaxSessions + 1
  /\ \A i \in Ids : assessed[i] = 1
  /\ resp.status = 400
  /\ includes(resp.error, <<"Session", "not", "found">>)

\* C5: when the model was consulted on an answer and the request succeeds: a
\* decision that needs a follow-up and has a non-empty question lowers the
\* budget by one, keeps the cursor and answers with that question under the
\* same skill; any other decision moves the cursor on by one and resets the
\* budget to the maximum.
C5_FollowupOrAdvance ==
  [][\A k \in 1..MaxInflight, out \in CallOutcomes, d \in Decisions :
       (AnswerResume(k, decideFollowupCall(out, d)) /\ resp'.status = 200) =>
         LET s == sess[reqs[k].sid]
             t == sess'[reqs[k].sid]
             asked == /\ out.pc = "returned"
                      /\ out.value = "object"
                      /\ d.need_followup
                      /\ d.followup_question \notin {None, ""}
         IN IF asked
              THEN /\ t.followupsLeft = s.followupsLeft - 1
                   /\ t.idx = s.idx
                   /\ resp'.done = "false"
                   /\ resp'.next =
                        [skill |-> s.planQuestions[s.idx + 1].skill,
                         question |-> d.followup_question]
              ELSE /\ t.idx = s.idx + 1
                   /\ t.followupsLeft = MAX_FOLLOWUPS_PER_SKILL]_vars

\* a follow-up question was returned and one follow-up of two is left
C5_Witness ==
  \E i \in sessions :
    /\ MAX_FOLLOWUPS_PER_SKILL = 2
    /\ sess[i].followupsLeft = 1
    /\ sess[i].idx = 0
    /\ resp.status = 200
    /\ resp.next = [skill |-> "A", question |-> "fq"]

\* the answers that, trimmed, are neither empty nor the '[SKIPPED]' sentinel
C6_Substantive == { <<"a", " ">> }

\* C6: an answer request asks the model for a follow-up decision exactly when
\* the budget is above 0 and the trimmed answer is neither empty nor
\* '[SKIPPED]'; otherwise it issues no call and moves the cursor on by one.
\* The call gets at most 3 entries, all of the current skill, the last of
\* them the entry just appended.
C6_DecisionCall ==
  [][\A sid \in Ids, a \in Answers :
       ( /\ AnswerBegin(sid, a)
         /\ sid \in sessions
         /\ sess[sid].idx < Len(sess[sid].planQuestions) ) =>
         LET s == sess[sid]
             t == sess'[sid]
             skill == s.planQuestions[s.idx + 1].skill
             entry == t.transcript[Len(t.transcript)]
             issued ==
               {k \in 1..MaxInflight : reqs[k] = NoReq /\ reqs'[k] # NoReq}
         IN /\ Len(t.transcript) = Len(s.transcript) + 1
            /\ entry.answer = a
            /\ IF s.followupsLeft > 0 /\ a \in C6_Substantive
                 THEN \E k \in issued :
                        /\ issued = {k}
                        /\ reqs'[k].op = "answer"
                        /\ LET qa == reqs'[k].recentQA IN
                           /\ Len(qa) \in 1..3
                           /\ \A j \in 1..Len(qa) : qa[j].skill = skill
                           /\ qa[Len(qa)] = entry
                 ELSE /\ issued = {}
                      /\ reqs' = reqs
                      /\ t.idx = s.idx + 1]_vars

\* a decision call is pending with 3 entries, out of more of that skill
C6_Witness ==
  \E k \in 1..MaxInflight :
    /\ reqs[k].op = "answer"
    /\ Len(reqs[k].recentQA) = 3
    /\ Len(SelectSeq(sess[reqs[k].sid].transcript,
                     LAMBDA e : e.skill = reqs[k].skillName)) > 3

\* C7: finish is accepted (assessment produced, session discarded) only for
\* a session whose cursor has passed the end of its plan.
C7_FinishOnlyAfterPlan ==
  [][\A i \in Ids :
       assessed'[i] > assessed[i]
         => sess[i].idx >= Len(sess[i].planQuestions)]_vars

\* C8: when planning fails or the response has no non-empty questions array,
\* start returns an error and registers nothing; when planning succeeds,
\* exactly one session is added, with cursor 0, an empty transcript and the
\* full budget, and the first plan question is returned.
C8_Start ==
  [][\A out \in CallOutcomes, q \in PlanQuestionValues :
       Start(buildInterviewPlan(out, q)) =>
         IF \/ out.pc = "raised"
            \/ out.value # "object"
            \/ ~q.isArray
            \/ q.items = <<>>
           THEN /\ resp'.status = 500
                /\ resp'.error # NoMsg
                /\ sessions' = sessions
                /\ sess' = sess
           ELSE \E new \in Ids \ sessions :
                  /\ sessions' = sessions \cup {new}
                  /\ sess'[new] =
                       [planQuestions |-> q.items, idx |-> 0,
                        transcript |-> <<>>,
                        followupsLeft |-> MAX_FOLLOWUPS_PER_SKILL]
                  /\ \A i \in Ids \ {new} : sess'[i] = sess[i]
                  /\ resp'.status = 200
                  /\ resp'.next = q.items[1]]_vars

\* a second session was just created next to one that has been answering
C8_Witness ==
  /\ sessions = {1, 2}
  /\ MAX_FOLLOWUPS_PER_SKILL = 1
  /\ sess[1].transcript # <<>>
  /\ sess[2] = [planQuestions |-> sess[2].planQuestions, idx |-> 0,
                transcript |-> <<>>, followupsLeft |-> 1]
  /\ resp.status = 200
  /\ resp.next = sess[2].planQuestions[1]

\* the messages the claim calls transient: empty content, 429 / rate limit,
\* timeout, 'temporarily', 'fetch failed'
C9_Transient ==
  { CallMsg.emptyContent, CallMsg.fixEmpty,
    <<"429", "status", "code">>,
    <<"Unexpected", "token", "}", "in", "JSON", "at", "position", "429">>,
    <<"Rate", "Limit", "reached">>,
    <<"Gateway", "Timeout">>,
    <<"Service", "temporarily", "unavailable">>,
    <<"fetch", "failed">> }

C9_Attempts ==
  /\ cj.attempt <= cj.maxAttempts
  /\ cj.pc = "sleep" =>
       cj.lastErr \in C9_Transient /\ cj.attempt < cj.maxAttempts
  /\ (cj.lastErr # NoMsg /\ cj.lastErr \notin C9_Transient) => cj.pc = "raised"
  /\ (cj.lastErr \in C9_Transient /\ cj.pc = "raised") =>
       cj.attempt = cj.maxAttempts
  /\ cj.pc = "raised" => cj.error = cj.lastErr
  /\ cj.pc = "returned" => cj.value \in JsonKinds
  /\ CallDone => ~ENABLED NextCall

C10_OneRepairThenFatal ==
  /\ cj.repairs <= 1
  /\ cj.pc = "repair" =>
       /\ cj.out.temperature = 0
       /\ cj.out.context = cj.last
  /\ cj.lastErr \in SyntaxErrors => cj.pc = "raised"
  /\ cj.calls <= 2 * cj.maxAttempts

(***************************************************************************)
(* C11: a response without a "{" ... "}" pair (closing brace after the     *)
(* opening one) is never accepted as a result, so every value callChatJSON *)
(* returns is a JSON object, never an array, string, number, boolean or    *)
(* null.                                                                   *)
(***************************************************************************)
C11_ReturnsObject == cj.pc = "returned" => cj.value = "object"


(***************************************************************************)
(* C15: for every input (in range, below 1, above 9, fractional,           *)
(* non-numeric, missing) the clamp result is an integer in [1,9] and       *)
(* clamping the result again gives the same result, for clampInt and for   *)
(* clamp alike.                                                            *)
(***************************************************************************)
C15_ClampIdempotent ==
  fin.pc = "clamped"
    => fin.once \in {IntNum(k) : k \in 1..9} /\ fin.twice = fin.once


(***************************************************************************)
(* C12: for any raw assessor output (skill_scores missing, not an array,   *)
(* empty, with unknown skills, with duplicates, with only some matrix      *)
(* skills) normalizeAssessorResult returns a skill_scores list with        *)
(* exactly one entry per matrix skill name, in matrix order.               *)
(***************************************************************************)
RawIsObjectOfObjects ==
  /\ ~fin.raw.isNull
  /\ \A k \in 1..Len(fin.raw.skill_scores.items) :
       ~fin.raw.skill_scores.items[k].isNull

C13_ScoresInRange ==
  fin.pc = "normalized" /\ fin.norm.ok =>
    /\ \A i \in 1..Len(fin.norm.skill_scores) :
         fin.norm.skill_scores[i].score_1_to_9 \in 1..9
    /\ fin.norm.exercise_score_1_to_9 \in 1..9

\* a result normalized from an out-of-range skill score and a raw exercise
\* score that is no score either
C13_Witness ==
  /\ fin.pc = "normalized"
  /\ fin.norm.ok
  /\ \E k \in 1..Len(fin.raw.skill_scores.items) :
       /\ fin.raw.skill_scores.items[k].skill = fin.skills[1].name
       /\ fin.raw.skill_scores.items[k].body.score_1_to_9 = Num(125)
  /\ fin.norm.skill_scores[1].score_1_to_9 = 9
  /\ fin.raw.exercise_score_1_to_9 = Num(-20)
  /\ fin.norm.exercise_score_1_to_9 = 1

(***************************************************************************)
(* C14: a matrix skill is matched to a raw entry by exact name equality; a *)
(* matrix skill without an exactly matching raw entry (one whose name      *)
(* differs only by surrounding whitespace is no match) gets the default:   *)
(* score 1, confidence "low", the assessor's stance, the one evidence      *)
(* bullet "No evidence captured for this skill.", two risks and two        *)
(* follow-ups.                                                             *)
(***************************************************************************)
C14_ExactMatchOrDefault ==
  fin.pc = "normalized" /\ fin.norm.ok =>
    \A i \in 1..Len(fin.skills) :
      (\A k \in 1..Len(fin.raw.skill_scores.items) :
          fin.raw.skill_scores.items[k].skill # fin.skills[i].name)
      => /\ fin.norm.skill_scores[i].score_1_to_9 = 1
         /\ fin.norm.skill_scores[i].confidence_low_med_high = "low"
         /\ fin.norm.skill_scores[i].assessor_stance = fin.stanceLabel
         /\ fin.norm.skill_scores[i].evidence_bullets =
              <<"No evidence captured for this skill.">>
         /\ Len(fin.norm.skill_scores[i].risks) = 2
         /\ Len(fin.norm.skill_scores[i].followups) = 2


(***************************************************************************)
(* C16: for integer skill scores in [1,9] and positive matrix weights,     *)
(* weightedSkillsScore0to100 is round(((avg - 1) / 8) * 100) with avg the  *)
(* exact, unrounded weighted mean sum(w_i * score_i) / sum(w_i).           *)
(***************************************************************************)
WeightOf(name) ==
  IF \E i \in 1..Len(fin.skills) : fin.skills[i].name = name
    THEN (CHOOSE r \in {fin.skills[i] : i \in 1..Len(fin.skills)} :
            r.name = name).weight
    ELSE 0

RECURSIVE SumOver(_, _)
SumOver(f, n) == IF n = 0 THEN 0 ELSE f[n] + SumOver(f, n - 1)

SumOfWeights ==
  SumOver([i \in 1..Len(fin.skill_scores) |->
             WeightOf(fin.skill_scores[i].skill)], Len(fin.skill_scores))

SumOfWeightedScores ==
  SumOver([i \in 1..Len(fin.skill_scores) |->
             WeightOf(fin.skill_scores[i].skill)
               * fin.skill_scores[i].score_1_to_9], Len(fin.skill_scores))

\* round(((p / q - 1) / 8) * 100), halves up
RoundedPercentOfMean(p, q) == (2 * (p - q) * 100 + 8 * q) \div (2 * 8 * q)

C16_ExactWeightedMean ==
  ( /\ fin.pc = "weighted"
    /\ fin.skill_scores # <<>>
    /\ \A i \in 1..Len(fin.skill_scores) :
         WeightOf(fin.skill_scores[i].skill) > 0 )
  => fin.skills100 = RoundedPercentOfMean(SumOfWeightedScores, SumOfWeights)


(***************************************************************************)
(* C17: with equal positive weights and every score the same integer s,    *)
(* weightedSkillsScore0to100 is round(((s - 1) / 8) * 100); with a total   *)
(* weight of 0 (no scores, all weights 0, only skills the matrix does not  *)
(* have) it is 0; a skill the matrix does not have counts with weight 0    *)
(* and leaves the result as it is without that skill.                      *)
(***************************************************************************)
IsMatrixSkill(ss) == \E i \in 1..Len(fin.skills) : fin.skills[i].name = ss.skill

EqualPositiveWeights ==
  /\ fin.skills[1].weight > 0
  /\ \A i \in 1..Len(fin.skills) : fin.skills[i].weight = fin.skills[1].weight

C17_EqualAndZero ==
  fin.pc = "weighted" =>
    /\ \A s \in 1..9 :
         ( /\ EqualPositiveWeights
           /\ \E i \in 1..Len(fin.skill_scores) :
                IsMatrixSkill(fin.skill_scores[i])
           /\ \A i \in 1..Len(fin.skill_scores) :
                fin.skill_scores[i].score_1_to_9 = s )
         => fin.skills100 = (2 * (s - 1) * 100 + 8) \div 16
    /\ SumOfWeights = 0 => fin.skills100 = 0
    /\ fin.skills100 =
         weightedSkillsScore0to100(SelectSeq(fin.skill_scores, IsMatrixSkill),
                                   fin.skills)

\* equal weights, every score 6, one of the scored skills not in the matrix
C17_Witness ==
  /\ fin.pc = "weighted"
  /\ EqualPositiveWeights
  /\ Len(fin.skill_scores) = 3
  /\ \A i \in 1..3 : fin.skill_scores[i].score_1_to_9 = 6
  /\ ~IsMatrixSkill(fin.skill_scores[3])
  /\ fin.skills100 = 63


(***************************************************************************)
(* C18: the overall score of a normalized result is                        *)
(* round(0.7 * skills100 + 0.3 * exercise100), exercise100 being the 0-100 *)
(* mapping of the clamped exercise score; it is an integer in [0,100], and *)
(* for skills100 = 80 and exercise100 = 60 it is 74.                       *)
(***************************************************************************)
\* round((7 * s + 3 * e) / 10), halves up
RoundedSeventyThirty(s, e) == (2 * (7 * s + 3 * e) + 10) \div 20

C18_Overall ==
  fin.pc = "overall" =>
    /\ weigh70to30(80, 60) = 74
    /\ fin.exercise100 =
         (2 * (fin.norm.exercise_score_1_to_9 - 1) * 100 + 8) \div 16
    /\ fin.overall \in 0..100
    /\ fin.overall = RoundedSeventyThirty(fin.skills100, fin.exercise100)

(***************************************************************************)
(* C19: the rows compareMulti returns are sorted by spread, largest first, *)
(* and rows of equal spread keep the relative order their skills have in   *)
(* the first result's skill list; skills [A,B] scored A = (9,1,5),         *)
(* B = (1,9,5) give row A (spread 8), then row B (spread 8).               *)
(***************************************************************************)
FirstSkills ==
  [i \in 1..Len(fin.results[1].norm.skill_scores) |->
     fin.results[1].norm.skill_scores[i].skill]

PositionOf(skill) == CHOOSE i \in 1..Len(FirstSkills) : FirstSkills[i] = skill

C19_SortedStable ==
  fin.pc = "compared" =>
    \A i, j \in 1..Len(fin.disagreement.rows) :
      i < j =>
        /\ fin.disagreement.rows[i].spread >= fin.disagreement.rows[j].spread
        /\ fin.disagreement.rows[i].spread = fin.disagreement.rows[j].spread
             => PositionOf(fin.disagreement.rows[i].skill)
                  < PositionOf(fin.disagreement.rows[j].skill)

\* the scenario: A = (9,1,5) and B = (1,9,5) compared, row A ahead of row B
C19_Witness ==
  /\ fin.pc = "compared"
  /\ fin.results = resultsOf(<<<<9, 1, 5>>, <<1, 9, 5>>>>)
  /\ Len(fin.disagreement.rows) = 2
  /\ fin.disagreement.rows[1].skill = <<"A">>
  /\ fin.disagreement.rows[1].spread = 8
  /\ fin.disagreement.rows[2].skill = <<"B">>
  /\ fin.disagreement.rows[2].spread = 8

(***************************************************************************)
(* C20: compareMulti produces exactly one row per skill of the first       *)
(* result; a row lists the scores in assessor order (1 for a result that   *)
(* lacks the skill) with min and max the least and greatest of them and    *)
(* spread = max - min, between 0 and 8; biggest_disagreements is the first *)
(* min(5, number of rows) rows of the sorted list.                         *)
(***************************************************************************)
ScoreIn(k, skill) ==
  IF \E x \in {fin.results[k].norm.skill_scores[i] :
                 i \in 1..Len(fin.results[k].norm.skill_scores)} :
       x.skill = skill
    THEN (CHOOSE x \in {fin.results[k].norm.skill_scores[i] :
                          i \in 1..Len(fin.results[k].norm.skill_scores)} :
            x.skill = skill).score_1_to_9
    ELSE 1

C20_Rows ==
  fin.pc = "compared" =>
    LET rows == fin.disagreement.rows
        top == fin.disagreement.biggest_disagreements
    IN /\ Len(rows) = Len(FirstSkills)
       /\ \A i \in 1..Len(FirstSkills) :
            Cardinality({j \in 1..Len(rows) : rows[j].skill = FirstSkills[i]})
              = 1
       /\ \A j \in 1..Len(rows) :
            /\ rows[j].scores = [k \in 1..3 |-> ScoreIn(k, rows[j].skill)]
            /\ \E k \in 1..3 : rows[j].min = rows[j].scores[k]
            /\ \E k \in 1..3 : rows[j].max = rows[j].scores[k]
            /\ \A k \in 1..3 : rows[j].min <= rows[j].scores[k]
            /\ \A k \in 1..3 : rows[j].max >= rows[j].scores[k]
            /\ rows[j].spread = rows[j].max - rows[j].min
            /\ rows[j].spread \in 0..8
       /\ Len(top) = Min(5, Len(rows))
       /\ \A j \in 1..Len(top) : top[j] = rows[j]

\* six skills compared, the second result lacking one of them: five of the
\* six rows are reported as biggest disagreements
C20_Witness ==
  /\ fin.pc = "compared"
  /\ Len(fin.disagreement.rows) = 6
  /\ Len(fin.disagreement.biggest_disagreements) = 5
  /\ \E j \in 1..6 :
       /\ fin.disagreement.rows[j].scores = <<5, 1, 6>>
       /\ Len(fin.results[2].norm.skill_scores) < 6
  /\ fin.disagreement.rows[1].spread > fin.disagreement.rows[6].spread


(***************************************************************************)
(* C21: for every well-formed JSON object J and every decoration around it *)
(* (prose before and after, code fences with or without a 'json' tag,      *)
(* outer whitespace), prose with '{' or '}' of its own included,           *)
(* cleanJSON(prefix + J + suffix) is exactly J, for both cleanJSON         *)
(* functions.                                                              *)
(***************************************************************************)
C21_ExtractsObject ==
  fin.pc = "cleaned" => fin.cleaned = fin.J /\ fin.cleaned_2 = fin.J


(***************************************************************************)
(* C22: an answer, auto-answer, auto-exercise or finish request that names *)
(* an id the registry does not hold is answered with the client error      *)
(* 'Session not found', starts no model call, and leaves the registry and  *)
(* every session (cursor, transcript, budget) as they were.                *)
(***************************************************************************)
C22_UnknownSession ==
  [][\A i \in Ids \ sessions :
       ( \/ \E a \in Answers : AnswerBegin(i, a)
         \/ \E o \in TextOutcomes : AutoAnswer(i, o)
         \/ \E o \in TextOutcomes : AutoExercise(i, o)
         \/ FinishBegin(i) )
         => /\ resp'.status = 400
            /\ includes(resp'.error, <<"Session", "not", "found", ".">>)
            /\ UNCHANGED <<sessions, sess, nextId, reqs, assessed>>]_vars

\* a request on an id never handed out was refused while the one session of
\* the registry was partway through its plan
C22_Witness ==
  /\ sessions = {1}
  /\ nextId = 2
  /\ sess[1].idx = 1
  /\ Len(sess[1].transcript) = 2
  /\ sess[1].followupsLeft = 1
  /\ resp.status = 400
  /\ includes(resp.error, <<"Session", "not", "found", ".">>)


(***************************************************************************)
(* C23: sessions are independent.  A request on session x (answer,         *)
(* auto-answer, auto-exercise, finish; begun or resumed after its model    *)
(* call), in any interleaving with requests on another session y, leaves   *)
(* y's cursor, transcript, budget and registry entry unchanged, and leaves *)
(* unchanged what a handler suspended on y holds, so that y's requests     *)
(* have the outcome they would have without the requests on x.             *)
(***************************************************************************)
C23_RequestOn(x) ==
  \/ \E a \in Answers : AnswerBegin(x, a)
  \/ \E k \in 1..MaxInflight :
       /\ reqs[k].sid = x
       /\ reqs'[k] = NoReq
       /\ \/ \E called \in DecisionResults : AnswerResume(k, called)
          \/ \E assessment \in AssessResults, writeOk \in BOOLEAN :
               FinishResume(k, assessment, writeOk)
  \/ \E o \in TextOutcomes : AutoAnswer(x, o)
  \/ \E o \in TextOutcomes : AutoExercise(x, o)
  \/ FinishBegin(x)

\* something of session y is not as it was
C23_Touched(y) ==
  \/ sess'[y] # sess[y]
  \/ ~(y \in sessions' <=> y \in sessions)
  \/ assessed'[y] # assessed[y]
  \/ \E k \in 1..MaxInflight : reqs[k].sid = y /\ reqs'[k] # reqs[k]

\* C23: a step that changes anything of session y is no step of a request on
\* another session x, that is, requests on x leave y as it was
C23_Independent ==
  [][\A y \in Ids :
       C23_Touched(y) => \A x \in Ids \ {y} : ~C23_RequestOn(x)]_vars

\* an answer request on one session and a finish request on the other are
\* suspended at the same time, each session with an entry in its transcript
C23_Witness ==
  \E k \in 1..MaxInflight, j \in 1..MaxInflight :
    /\ reqs[k].op = "answer"
    /\ reqs[j].op = "finish"
    /\ reqs[k].sid # reqs[j].sid
    /\ sess[reqs[k].sid].transcript # <<>>
    /\ sess[reqs[j].sid].transcript # <<>>


(***************************************************************************)
(* C24: the transcript of a session is append-only.  Over any sequence of  *)
(* requests its length never decreases and an entry once written keeps its *)
(* skill, question and answer; an answer submission appends exactly one    *)
(* entry, whose skill is that of the plan item at the cursor when the      *)
(* answer was submitted, and nothing else writes to the transcript.        *)
(***************************************************************************)
C24_AppendOnly ==
  [][\A i \in sessions \cap sessions' :
       LET s == sess[i]
           t == sess'[i]
           n == Len(s.transcript)
       IN /\ Len(t.transcript) >= n
          /\ SubSeq(t.transcript, 1, n) = s.transcript
          /\ t.transcript # s.transcript =>
               /\ \E a \in Answers : AnswerBegin(i, a)
               /\ Len(t.transcript) = n + 1
               /\ t.transcript[n + 1].skill = s.planQuestions[s.idx + 1].skill
          /\ (\E a \in Answers : AnswerBegin(i, a) /\ resp'.status = 200)
               => Len(t.transcript) = n + 1
          /\ \A k \in 1..MaxInflight :
               (reqs[k].sid = i /\ reqs'[k] = NoReq)
                 => t.transcript = s.transcript]_vars

\* a session holds entries of two plan items, the first answered twice, and
\* the last submission succeeded
C24_Witness ==
  \E i \in sessions :
    /\ Len(sess[i].transcript) = 3
    /\ sess[i].transcript[1].skill = "A"
    /\ sess[i].transcript[2].skill = "A"
    /\ sess[i].transcript[3].skill = "B"
    /\ sess[i].idx = 2
    /\ resp.status = 200
    /\ resp.done = "true"


(***************************************************************************)
(* C25: when a client awaits each response, every successful answer        *)
(* submission either lowers the follow-up budget by one (cursor unchanged) *)
(* or moves the cursor on by one; at most MAX_FOLLOWUPS_PER_SKILL          *)
(* follow-ups are asked in a row for one plan item; so the session is done *)
(* after at most planLength x (MAX_FOLLOWUPS_PER_SKILL + 1) successful     *)
(* submissions, whatever the model decides.  C25_Progress counts the       *)
(* submissions a session can have taken: each successful one raises it by  *)
(* at least 1, and it is planLength x (MAX_FOLLOWUPS_PER_SKILL + 1) at     *)
(* most, a value it has only when the session is done.                     *)
(***************************************************************************)
C25_Progress(s) ==
  s.idx * (MAX_FOLLOWUPS_PER_SKILL + 1)
    + (MAX_FOLLOWUPS_PER_SKILL - s.followupsLeft)

\* C25: every answer request that is answered raises the session's progress,
\* which never exceeds plan length * (MAX_FOLLOWUPS_PER_SKILL + 1), so the
\* interview is done after at most that many answers
C25_BoundedInterview ==
  [][\A i \in sessions :
       LET s == sess[i]
           t == sess'[i]
           succeeded ==
             \/ /\ \E a \in Answers : AnswerBegin(i, a)
                /\ reqs' = reqs
                /\ resp'.status = 200
             \/ /\ \E k \in 1..MaxInflight, called \in DecisionResults :
                     reqs[k].sid = i /\ AnswerResume(k, called)
                /\ resp'.status = 200
       IN succeeded =>
            /\ \/ /\ t.idx = s.idx
                  /\ t.followupsLeft = s.followupsLeft - 1
                  /\ t.followupsLeft >= 0
                  /\ resp'.done = "false"
               \/ /\ t.idx = s.idx + 1
                  /\ t.followupsLeft = MAX_FOLLOWUPS_PER_SKILL
            /\ C25_Progress(t) > C25_Progress(s)
            /\ C25_Progress(t)
                 <= Len(t.planQuestions) * (MAX_FOLLOWUPS_PER_SKILL + 1)
            /\ resp'.done = "true" <=> t.idx = Len(t.planQuestions)
            /\ resp'.done = "true" <=>
                 C25_Progress(t)
                   = Len(t.planQuestions) * (MAX_FOLLOWUPS_PER_SKILL + 1)]_vars

\* a plan of two questions, each followed up once: done with the fourth
\* successful submission, the most the budget of 1 allows
C25_Witness ==
  \E i \in sessions :
    /\ MAX_FOLLOWUPS_PER_SKILL = 1
    /\ Len(sess[i].planQuestions) = 2
    /\ Len(sess[i].transcript) = 4
    /\ sess[i].idx = 2
    /\ resp.status = 200
    /\ resp.done = "true"


(***************************************************************************)
(* C26: the retry delays of callChatJSON are 450, 900, 1800, 3600, 5000,   *)
(* 5000, ...: the delay before retry k is min(450 * 2^(k-1), 5000), the    *)
(* delays never decrease and never exceed 5000, a sleep happens only       *)
(* between two attempts (never after the last attempt, never after a fatal *)
(* error), and a call that made n attempts slept exactly n - 1 times.      *)
(***************************************************************************)
C26_Delays ==
  /\ \A k \in 1..Len(cj.sleeps) :
       /\ cj.sleeps[k] = Min(450 * 2 ^ (k - 1), 5000)
       /\ cj.sleeps[k] <= 5000
       /\ k > 1 => cj.sleeps[k] >= cj.sleeps[k - 1]
  /\ cj.pc = "sleep" =>
       /\ Len(cj.sleeps) = cj.attempt
       /\ cj.attempt < cj.maxAttempts
       /\ isTransient(cj.lastErr)
  /\ cj.pc \in {"primary", "repair", "returned", "raised"} =>
       Len(cj.sleeps) = cj.attempt - 1

\* seven attempts, six sleeps, the last two of them at the cap
C26_Witness ==
  /\ cj.pc = "raised"
  /\ cj.attempt = 7
  /\ cj.sleeps = <<450, 900, 1800, 3600, 5000, 5000>>


(***************************************************************************)
(* C27: every transcript entry records the question that was presented to  *)
(* the candidate for that answer: when the last response presented a       *)
(* question (the first plan question, the next plan question or a          *)
(* follow-up question), the entry the next answer appends has that         *)
(* question as its question; after a follow-up, the follow-up question and *)
(* not the plan question.  Stated for a run of a single session, where the *)
(* last response is the one that session's client got.                     *)
(***************************************************************************)
C27_RecordsPresentedQuestion ==
  [][\A i \in sessions, a \in Answers :
       ( /\ AnswerBegin(i, a)
         /\ Len(sess'[i].transcript) = Len(sess[i].transcript) + 1
         /\ resp.status = 200
         /\ resp.next.question # None )
         => /\ sess'[i].transcript[Len(sess'[i].transcript)].skill
                 = resp.next.skill
            /\ sess'[i].transcript[Len(sess'[i].transcript)].question
                 = resp.next.question]_vars


(***************************************************************************)
(* C28: also when two answer requests on one session overlap (the second   *)
(* is handled while the first awaits its follow-up decision) the session   *)
(* invariants hold: followupsLeft >= 0, idx <= plan length, and the cursor *)
(* moves on by at most one per plan item answered, so that every plan item *)
(* the cursor has passed has an answer in the transcript.                  *)
(***************************************************************************)
C28_OverlapKeepsInvariants ==
  \A i \in sessions :
    LET s == sess[i] IN
    /\ s.followupsLeft >= 0
    /\ s.idx <= Len(s.planQuestions)
    /\ \A j \in 1..Min(s.idx, Len(s.planQuestions)) :
         \E n \in 1..Len(s.transcript) :
           s.transcript[n].question = s.planQuestions[j].question


(***************************************************************************)
(* C29: when any of the three assessor calls of a finish request fails,    *)
(* the request returns an error, writes no audit artifact, and leaves the  *)
(* session in the registry with transcript, cursor and budget as they      *)
(* were, so that finish can be asked again; a session leaves the registry  *)
(* only in the step that, all three assessments done, wrote the artifact.  *)
(***************************************************************************)
\* a failure of any of the three calls is the failure of the assessment
C29_AnyFailureFails ==
  \A outs \in [1..3 -> CallOutcomes] :
    FirstRaised(outs) # 0 =>
      /\ ~Assess(outs).ok
      /\ Assess(outs).error = outs[FirstRaised(outs)].error
      /\ Assess(outs) \in AssessResults

\* C29: a finish request with a failed assessor call answers with that
\* failure, deletes nothing, and leaves the session ready for another finish
C29_FailedFinishKeepsSession ==
  [][/\ \A k \in 1..MaxInflight :
          (reqs[k].op = "finish" /\ reqs'[k] = NoReq) =>
            /\ C29_AnyFailureFails
            /\ \A assessment \in AssessResults, writeOk \in BOOLEAN :
                 (~assessment.ok /\ FinishResume(k, assessment, writeOk))
                   => /\ resp'.status = 500
                      /\ resp'.error = assessment.error
                      /\ assessed' = assessed
                      /\ sessions' = sessions
                      /\ reqs[k].sid \in sessions'
                      /\ sess'[reqs[k].sid] = reqs[k].before
                      /\ sess'[reqs[k].sid] = sess[reqs[k].sid]
     /\ \A i \in sessions \ sessions' :
          /\ assessed'[i] = assessed[i] + 1
          /\ resp'.status = 200
          /\ \E k \in 1..MaxInflight :
               /\ reqs[k].op = "finish"
               /\ reqs[k].sid = i
               /\ reqs'[k] = NoReq]_vars

\* the only session of the run has been through its plan, and its finish
\* request failed on an assessor that returned empty content three times
C29_Witness ==
  /\ sessions = {1}
  /\ nextId = 2
  /\ sess[1].idx = Len(sess[1].planQuestions)
  /\ sess[1].transcript # <<>>
  /\ assessed[1] = 0
  /\ \A k \in 1..MaxInflight : reqs[k] = NoReq
  /\ resp.status = 500
  /\ resp.error = CallMsg.emptyContent


(***************************************************************************)
(* C30: an answer submitted when the cursor is past the end of the plan    *)
(* (the session awaits the exercise) is rejected with an error and leaves  *)
(* the session's transcript, cursor and budget unchanged; an auto-answer   *)
(* request in that state is answered 'No current question.' whatever the   *)
(* model would have returned, and changes nothing either.                  *)
(***************************************************************************)
C30_NoCurrentQuestion ==
  [][\A i \in sessions :
       sess[i].idx >= Len(sess[i].planQuestions) =>
         /\ (\E a \in Answers : AnswerBegin(i, a))
              => /\ resp'.status >= 400
                 /\ resp'.error # NoMsg
                 /\ resp'.done = None
                 /\ UNCHANGED <<sessions, sess, reqs, assessed>>
         /\ \A o \in TextOutcomes :
              AutoAnswer(i, o)
                => /\ resp' = ErrorResponse(400, HandlerMsg.noQuestion)
                   /\ UNCHANGED <<sessions, sess, reqs, assessed>>]_vars

\* an auto-answer was asked of a session that has answered its whole plan
C30_Witness ==
  \E i \in sessions :
    /\ Len(sess[i].planQuestions) = 2
    /\ sess[i].idx = 2
    /\ Len(sess[i].transcript) >= 2
    /\ resp.status = 400
    /\ resp.error = HandlerMsg.noQuestion

(***************************************************************************)
(* C31: auto-answer and auto-exercise requests never change session state. *)
(* Whether the request is answered with generated text or with an error,   *)
(* every session's cursor, transcript and follow-up budget, the registry,  *)
(* the suspended handlers and the artifact counts are after the step what  *)
(* they were before it.  The same is stated from the client's side: a step *)
(* that starts or ends no suspension and answers with an error only these  *)
(* two handlers produce has changed nothing.                               *)
(***************************************************************************)
C31_AutoRequestsChangeNothing ==
  [][/\ \A i \in Ids, o \in TextOutcomes :
          (AutoAnswer(i, o) \/ AutoExercise(i, o))
            => /\ sess'[i].idx = sess[i].idx
               /\ sess'[i].transcript = sess[i].transcript
               /\ sess'[i].followupsLeft = sess[i].followupsLeft
               /\ (i \in sessions' <=> i \in sessions)
               /\ UNCHANGED <<sessions, sess, reqs, assessed>>
               /\ resp'.status \in {200, 400, 500}
               /\ resp'.status = 200 <=>
                    /\ i \in sessions
                    /\ o.pc = "returned"
                    /\ o.value # ""
                    /\ \/ AutoExercise(i, o)
                       \/ sess[i].idx < Len(sess[i].planQuestions)
     /\ (/\ reqs' = reqs
         /\ resp'.error \in {HandlerMsg.notFound, HandlerMsg.noQuestion,
                              HandlerMsg.emptyAnswer})
          => UNCHANGED <<sessions, sess, assessed>>]_vars

\* a session in the middle of its interview, its follow-up budget spent, has
\* just been given a generated answer or exercise response
C31_Witness ==
  \E i \in sessions :
    /\ sess[i].idx = 1
    /\ Len(sess[i].planQuestions) = 2
    /\ Len(sess[i].transcript) >= 2
    /\ sess[i].followupsLeft < MAX_FOLLOWUPS_PER_SKILL
    /\ assessed[i] = 0
    /\ resp = Response(200)

====
